---- MODULE Spec2Model ----
(***************************************************************************)
(* hubproxy: the event store, the ingestion handler, the forwarding engine *)
(* with its capacity-one trigger queue, the replay handlers (REST and      *)
(* GraphQL) and the statistics collector, as one state machine.            *)
(*                                                                         *)
(* The events table is a set of rows: rows that agree in every column are  *)
(* not told apart, rows with one id and different columns are.  Every      *)
(* database statement is one atomic step; a Go function that issues        *)
(* several statements, or a statement and a channel operation or an HTTP   *)
(* round trip, is a chain of steps, so that concurrent goroutines          *)
(* interleave between them as they do in the program.                      *)
(***************************************************************************)
EXTENDS Integers, Sequences, FiniteSets, TLC

VARIABLES
    events,     \* the events table: a set of rows
    now,        \* the wall clock read by time.Now()
    nextUUID,   \* how many uuid.New() values have been drawn
    call,       \* per request goroutine: the handler call in progress
    fq,         \* WebhookForwarder.queue: number of buffered requests
    sw,         \* per sweeper: the ProcessEvents run in progress
    mq,         \* DBMetricsCollector.queue: number of buffered requests
    mpc,        \* the metrics worker's and the metrics ticker's positions
    gauge,      \* hubproxy_db_events_count, per type, as last set
    ctxDone,    \* the context passed to the background tasks is cancelled
    okSent,     \* history: ids of events a request to the target succeeded for
    failedSent, \* history: ids of events a request to the target failed for
    delivered,  \* history: ids a sweep sent with success and then marked
    cap,        \* a range replay over a large store, rows kept as a number
    ipv         \* the allowlist: its ranges, its lock, and the calls on it

vars == <<events, now, nextUUID, call, fq, sw, mq, mpc, gauge, ctxDone,
          okSent, failedSent, delivered, cap, ipv>>

----------------------------------------------------------------------------
(* Bounds of the model *)

MaxRows == 2
MaxClock == 2
MaxUUID == 2

(* Program constants *)

QueueCap == 1
NoTime == 0
DefaultReplayLimit == 100

Procs == {"r1", "r2"}
Sweepers == {"worker", "direct"}

DeliveryIds == {"d1", "d2"}
EventTypes == {"push", "pull_request"}
Bodies == {"b1", "b2"}
UUIDs == <<"u1", "u2", "u3", "u4">>

NoId == <<>>
NoHeaders == <<>>

----------------------------------------------------------------------------
(* The inbound delivery and the Event built from it *)

\* The wire requests the model draws from: a delivery id, the event type
\* header and a raw body.  Two of them share a delivery id and differ in
\* type and body.
Deliveries ==
    { [did |-> "d1", etype |-> "push", body |-> "b1"],
      [did |-> "d1", etype |-> "pull_request", body |-> "b2"],
      [did |-> "d2", etype |-> "push", body |-> "b1"] }

\* json.Marshal(r.Header): the header map as a JSON object, keys sorted.
HeaderJSON(d) ==
    << <<"X-Github-Delivery", d.did>>, <<"X-Github-Event", d.etype>> >>

\* json.Unmarshal(event.Headers, &headers): fails on an absent (nil) blob.
HeadersParse(blob) == blob # NoHeaders

\* payloadMap["repository"]["full_name"]: body b1 carries it, b2 does not.
ExtractRepository(body) == IF body = "b1" THEN "test/repo" ELSE ""

\* payloadMap["sender"]["login"]
ExtractSender(body) == IF body = "b1" THEN "test-user" ELSE ""

\* The Event that ServeHTTP constructs from a validated delivery.
IngestEvent(d, t) ==
    [ id           |-> <<d.did>>,
      type         |-> d.etype,
      headers      |-> HeaderJSON(d),
      payload      |-> d.body,
      createdAt    |-> t,
      forwardedAt  |-> NoTime,
      error        |-> "",
      repository   |-> ExtractRepository(d.body),
      sender       |-> ExtractSender(d.body),
      replayedFrom |-> NoId,
      originalTime |-> NoTime ]

----------------------------------------------------------------------------
(* The event store *)

RowsWithId(tbl, id) == { r \in tbl : r.id = id }

\* SELECT 1 FROM events WHERE id = ? scanned into exists.
Exists(tbl, id) == RowsWithId(tbl, id) # {}

\* The columns the current schema has beyond those of the INSERT statement.
SchemaColumns(e, base) ==
    [ base EXCEPT !.headers = e.headers,
                  !.forwardedAt = e.forwardedAt,
                  !.replayedFrom = e.replayedFrom,
                  !.originalTime = e.originalTime ]

\* InsertRow with a fault: the INSERT leaves the sender column out.
InsertRowNoSender(e) ==
    SchemaColumns(e,
        [ id           |-> e.id,
          type         |-> e.type,
          headers      |-> NoHeaders,
          payload      |-> e.payload,
          createdAt    |-> e.createdAt,
          forwardedAt  |-> NoTime,
          error        |-> e.error,
          repository   |-> e.repository,
          sender       |-> "",
          replayedFrom |-> NoId,
          originalTime |-> NoTime ])

\* INSERT INTO events (id, type, payload, created_at, error, repository,
\* sender) VALUES (...)
InsertRow(e) ==
    SchemaColumns(e,
        [ id           |-> e.id,
          type         |-> e.type,
          headers      |-> NoHeaders,
          payload      |-> e.payload,
          createdAt    |-> e.createdAt,
          forwardedAt  |-> NoTime,
          error        |-> e.error,
          repository   |-> e.repository,
          sender       |-> e.sender,
          replayedFrom |-> NoId,
          originalTime |-> NoTime ])

\* UpdateRow with a fault: the UPDATE also writes forwarded_at.
UpdateRowClearsForwarded(old, e) ==
    [ old EXCEPT !.type = e.type,
                 !.payload = e.payload,
                 !.createdAt = e.createdAt,
                 !.error = e.error,
                 !.repository = e.repository,
                 !.sender = e.sender,
                 !.forwardedAt = e.forwardedAt ]

\* UPDATE events SET type, payload, created_at, error, repository, sender
\* WHERE id = ?
UpdateRow(old, e) ==
    [ old EXCEPT !.type = e.type,
                 !.payload = e.payload,
                 !.createdAt = e.createdAt,
                 !.error = e.error,
                 !.repository = e.repository,
                 !.sender = e.sender ]

\* UpdateExisting with a fault: the stored row is replaced by a freshly
\* inserted one.
UpdateExistingReplaces(tbl, e) ==
    { IF r.id = e.id THEN InsertRow(e) ELSE r : r \in tbl }

\* The table after the UPDATE of StoreEvent's "exists" branch.
UpdateExisting(tbl, e) ==
    { IF r.id = e.id THEN UpdateRow(r, e) ELSE r : r \in tbl }

\* id VARCHAR(36) PRIMARY KEY: an INSERT of a present id is rejected.
PrimaryKeyConflict(tbl, id) == Exists(tbl, id)

\* The row scan of GetEvent and ListEvents: every column of the row.
ScanRow(row) == row

\* GetEvent: the row with this id, or none.
HasEvent(tbl, id) == Exists(tbl, id)
GetEvent(tbl, id) == ScanRow(CHOOSE r \in RowsWithId(tbl, id) : TRUE)

\* UPDATE events SET forwarded_at = time.Now() WHERE id = ?
MarkRow(row, t) == [row EXCEPT !.forwardedAt = t]

\* MarkForwarded: the table after the UPDATE.
MarkForwarded(tbl, id, t) ==
    { IF r.id = id THEN MarkRow(r, t) ELSE r : r \in tbl }

\* MarkForwardedErr with a fault: the number of affected rows is not
\* looked at.
MarkForwardedErrNever(tbl, id) == FALSE

\* MarkForwarded's result: "event not found" when no row was affected.
MarkForwardedErr(tbl, id) == RowsWithId(tbl, id) = {}

\* addQueryConditions with a fault: the conditions are joined by OR.
AddQueryConditionsAny(row, opts) ==
    \/ /\ opts.types = {}
       /\ opts.since = NoTime
       /\ opts.until = NoTime
       /\ opts.repository = ""
       /\ opts.sender = ""
    \/ (opts.types # {} /\ row.type \in opts.types)
    \/ (opts.since # NoTime /\ row.createdAt >= opts.since)
    \/ (opts.until # NoTime /\ row.createdAt <= opts.until)
    \/ (opts.repository # "" /\ row.repository = opts.repository)
    \/ (opts.sender # "" /\ row.sender = opts.sender)

\* addQueryConditions: types, since, until, repository, sender (AND).
AddQueryConditions(row, opts) ==
    /\ (opts.types # {} => row.type \in opts.types)
    /\ (opts.since # NoTime => row.createdAt >= opts.since)
    /\ (opts.until # NoTime => row.createdAt <= opts.until)
    /\ (opts.repository # "" => row.repository = opts.repository)
    /\ (opts.sender # "" => row.sender = opts.sender)

\* OnlyNonForwardedCond with a fault: an event that was delivered once is
\* not listed again, marked or not.
OnlyNonForwardedCondUnsent(row, opts) ==
    opts.onlyNonForwarded => (row.forwardedAt = NoTime /\ row.id \notin okSent)

\* QueryOptions.OnlyNonForwarded: forwarded_at IS NULL.
OnlyNonForwardedCond(row, opts) ==
    opts.onlyNonForwarded => row.forwardedAt = NoTime

\* Matches with a fault: an event whose delivery failed once is given up.
MatchesUntilFailed(row, opts) ==
    /\ AddQueryConditions(row, opts)
    /\ OnlyNonForwardedCond(row, opts)
    /\ (opts.onlyNonForwarded => row.id \notin failedSent)

\* The WHERE clause of ListEvents and CountEvents.
Matches(row, opts) ==
    AddQueryConditions(row, opts) /\ OnlyNonForwardedCond(row, opts)

\* The rows a SELECT with these conditions returns.
FilterRows(tbl, opts) == { ScanRow(r) : r \in { x \in tbl : Matches(x, opts) } }

\* The zero QueryOptions value.
NoOpts ==
    [ types |-> {}, since |-> NoTime, until |-> NoTime, repository |-> "",
      sender |-> "", onlyNonForwarded |-> FALSE, limit |-> 0, offset |-> 0 ]

SweepOpts == [NoOpts EXCEPT !.onlyNonForwarded = TRUE]

----------------------------------------------------------------------------
(* The capacity-one trigger queues *)

\* Enqueue with a fault: a send that does not drop the request when the
\* buffer is full.
EnqueueUnbounded(q) == q + 1

\* select { case queue <- struct{}{}: default: } on a channel of capacity 1.
Enqueue(q) == IF q < QueueCap THEN q + 1 ELSE q

----------------------------------------------------------------------------
(* Replay *)

NoEvent ==
    [ id |-> NoId, type |-> "", headers |-> NoHeaders, payload |-> "",
      createdAt |-> NoTime, forwardedAt |-> NoTime, error |-> "",
      repository |-> "", sender |-> "", replayedFrom |-> NoId,
      originalTime |-> NoTime ]

\* ReplayId with a fault: the id has no fresh suffix.
ReplayIdNoSuffix(id, uuid) == id \o <<"replay">>

\* fmt.Sprintf("%s-replay-%s", event.ID, uuid.New().String())
ReplayId(id, uuid) == id \o <<"replay", uuid>>

\* Handler.ReplayEvent (REST): the replay Event built from the source.
RestReplayEvent(src, uuid, t) ==
    [ id           |-> ReplayId(src.id, uuid),
      type         |-> src.type,
      headers      |-> NoHeaders,
      payload      |-> src.payload,
      createdAt    |-> t,
      forwardedAt  |-> NoTime,
      error        |-> "",
      repository   |-> src.repository,
      sender       |-> src.sender,
      replayedFrom |-> src.id,
      originalTime |-> src.createdAt ]

\* Schema.resolveReplayEvent (GraphQL): the replay Event built from the
\* source.
GqlReplayEvent(src, uuid, t) ==
    [ id           |-> ReplayId(src.id, uuid),
      type         |-> src.type,
      headers      |-> src.headers,
      payload      |-> src.payload,
      createdAt    |-> t,
      forwardedAt  |-> NoTime,
      error        |-> "",
      repository   |-> src.repository,
      sender       |-> src.sender,
      replayedFrom |-> src.id,
      originalTime |-> src.createdAt ]

----------------------------------------------------------------------------
(* The origin allowlist: addresses, ranges and the metadata endpoint *)

\* Addresses are AddrBits wide.  An address string is the sequence of its
\* numbers: one number below 2^AddrBits for a well-formed address.
AddrBits == 3

\* net.ParseIP returns nil for a string that is not an address.
NoIP == -1

AddrStrings == { <<1>>, <<4>>, <<6>>, <<7>>, <<9>>, <<>>, <<4, 4>> }

\* net.ParseIP
ParseIP(str) ==
    IF Len(str) = 1 /\ str[1] >= 0 /\ str[1] < 2^AddrBits
    THEN str[1] ELSE NoIP

\* ip.Mask(mask): the address with all but its first bits leading bits
\* cleared.
Mask(ip, bits) ==
    (ip \div 2^(AddrBits - bits)) * 2^(AddrBits - bits)

\* The comparison with a fault: the address is compared unmasked.
ContainsUnmasked(ipnet, ip) == ip = ipnet.base

\* IPNet.Contains
Contains(ipnet, ip) == Mask(ip, ipnet.bits) = ipnet.base

NoNet == [ base |-> NoIP, bits |-> 0 ]

\* net.ParseCIDR of "address/bits": an error for a malformed address or a
\* prefix length out of range, else the network with its base masked.
ParseCIDR(cidr) ==
    IF ParseIP(cidr.addr) = NoIP \/ cidr.bits < 0 \/ cidr.bits > AddrBits
    THEN NoNet
    ELSE [ base |-> Mask(ParseIP(cidr.addr), cidr.bits), bits |-> cidr.bits ]

\* The loop over the range strings: an error at the first one that does
\* not parse, else the parsed networks in order.
ParseCIDRs(cidrs) ==
    IF \E i \in 1..Len(cidrs) : ParseCIDR(cidrs[i]) = NoNet
    THEN [ ok |-> FALSE, nets |-> <<>> ]
    ELSE [ ok |-> TRUE,
           nets |-> [i \in 1..Len(cidrs) |-> ParseCIDR(cidrs[i])] ]

\* The range lists the model draws from: none; the upper half; the lowest
\* two addresses (written with an unmasked base) and the highest two; and a
\* list whose second range is malformed.
HookLists ==
    { <<>>,
      << [addr |-> <<4>>, bits |-> 1] >>,
      << [addr |-> <<1>>, bits |-> 2], [addr |-> <<6>>, bits |-> 2] >>,
      << [addr |-> <<4>>, bits |-> 1], [addr |-> <<9>>, bits |-> 1] >> }

\* What http.Get("https://api.github.com/meta") returns: a transport error,
\* or a response with its status and a body that is a JSON object (with the
\* hooks it carries; an error object carries none) or not JSON at all.
NoResponse == [ err |-> FALSE, status |-> 0, json |-> FALSE, hooks |-> <<>> ]
Responses ==
    { [NoResponse EXCEPT !.err = TRUE] }
    \cup { [NoResponse EXCEPT !.status = 200, !.json = TRUE, !.hooks = h] :
              h \in HookLists }
    \cup { [NoResponse EXCEPT !.status = 200],
           [NoResponse EXCEPT !.status = 403, !.json = TRUE],
           [NoResponse EXCEPT !.status = 502] }

\* json.NewDecoder(resp.Body).Decode(&meta): an error for a body that is
\* not JSON; meta.Hooks is empty when the object has no hooks member.
Decode(resp) == [ ok |-> resp.json, hooks |-> resp.hooks ]

\* The validator as allocated by NewIPValidator, before its first update:
\* no ranges, the lock free, no call in progress.
IdleUpdate == [ pc |-> "idle", resp |-> NoResponse, nets |-> <<>>,
                err |-> "" ]
IdleSet == [ pc |-> "idle", nets |-> <<>> ]
IdleRead == [ pc |-> "idle", addr |-> <<>>, ip |-> NoIP, iter |-> <<>>,
              i |-> 0, ans |-> FALSE ]
NewValidator ==
    [ webhookCIDR |-> <<>>,
      mu  |-> [ w |-> "none", r |-> 0 ],
      upd |-> IdleUpdate,
      set |-> IdleSet,
      rd  |-> IdleRead,
      bg  |-> "new" ]

----------------------------------------------------------------------------
(* Initial state: the store is empty, the handlers are constructed, no     *)
(* background task has been started.                                       *)

IdleCall ==
    [ pc |-> "idle", op |-> "none", ev |-> NoEvent, exists |-> FALSE,
      err |-> "", status |-> 0, n |-> 0, todo |-> {}, made |-> {},
      counted |-> FALSE ]

\* No range replay over a large store is in progress.
NoCap == [ pc |-> "none", op |-> "none", matching |-> 0, limit |-> 0,
           listed |-> 0, created |-> 0, status |-> 0 ]

IdleSweep ==
    [ pc |-> "idle", todo |-> {}, cur |-> NoEvent, seen |-> {},
      late |-> FALSE ]

Init ==
    /\ events = {}
    /\ now = 1
    /\ nextUUID = 0
    /\ call = [p \in Procs |-> IdleCall]
    /\ fq = 0
    /\ sw = [s \in Sweepers |->
                IF s = "worker" THEN [IdleSweep EXCEPT !.pc = "none"]
                ELSE IdleSweep]
    /\ mq = 0
    /\ mpc = [w |-> "none", t |-> "none"]
    /\ gauge = [ty \in EventTypes |-> 0]
    /\ ctxDone = FALSE
    /\ okSent = {}
    /\ failedSent = {}
    /\ delivered = {}
    /\ cap = NoCap
    /\ ipv = NewValidator

----------------------------------------------------------------------------
(* Request goroutines: ingestion and single replay, each ending in         *)
(* StoreEvent's probe and write                                            *)

Free(p) == call[p].pc \in {"idle", "done"}

InFlight == Cardinality({p \in Procs : call[p].pc \in {"probe", "write"}})

\* Handler.ServeHTTP up to the call of StoreEvent, for a delivery that
\* passes validation.
ServeHTTP(p, d) ==
    /\ Free(p)
    /\ Cardinality(events) + InFlight < MaxRows
    /\ call' = [call EXCEPT ![p] =
            [IdleCall EXCEPT !.pc = "probe", !.op = "ingest",
                             !.ev = IngestEvent(d, now)]]
    /\ UNCHANGED <<events, now, nextUUID, fq, sw, mq, mpc, gauge, ctxDone,
                   okSent, failedSent, delivered, cap,
                   ipv>>

\* The webhook secret the handler is constructed with.
Secret == "secret"

Methods == {"POST", "GET"}

\* Addresses inside IPValidator.webhookCIDR, and the remote addresses the
\* model draws from.
GitHubHooks == {"192.30.252.1"}
RemoteAddrs == {"192.30.252.1", "10.0.0.1"}

\* IPValidator.IsGitHubIP: some CIDR of the hook ranges contains the address.
IsGitHubIP(host) == host \in GitHubHooks

\* HMAC-SHA256 of a message under a key: a value that determines both.
HMAC(key, msg) == <<key, msg>>

\* The X-Hub-Signature-256 header: absent, or a prefix followed by text that
\* is or is not hexadecimal and then decodes to a digest.
NoSignature == <<>>
Signatures ==
    { NoSignature,
      [prefix |-> "sha1=", hex |-> TRUE, mac |-> HMAC(Secret, "b1")],
      [prefix |-> "sha256=", hex |-> FALSE, mac |-> <<>>],
      [prefix |-> "sha256=", hex |-> TRUE, mac |-> HMAC("other", "b1")],
      [prefix |-> "sha256=", hex |-> TRUE, mac |-> HMAC(Secret, "b1")],
      [prefix |-> "sha256=", hex |-> TRUE, mac |-> HMAC(Secret, "b2")] }

\* The requests that reach /webhook: every delivery with its own signature
\* from a GitHub address, and the first delivery with every combination of
\* method, event-type header present or not, remote address and signature.
Requests ==
    { [method |-> "POST", did |-> d.did, etype |-> d.etype, body |-> d.body,
       remote |-> "192.30.252.1",
       sig |-> [prefix |-> "sha256=", hex |-> TRUE,
                mac |-> HMAC(Secret, d.body)]] : d \in Deliveries }
    \cup
    { [method |-> m, did |-> "d1", etype |-> ty, body |-> "b1",
       remote |-> a, sig |-> sg] :
         m \in Methods, ty \in {"push", ""}, a \in RemoteAddrs,
         sg \in Signatures }

\* The origin check with a fault: validateIP is not consulted.
ValidateGitHubEventNoSwitch(validateIP, rq) ==
    IF rq.etype = "" THEN "missing event type"
    ELSE IF ~IsGitHubIP(rq.remote)
         THEN "request from non-GitHub IP"
         ELSE ""

\* Handler.ValidateGitHubEvent: the event-type header must be present; an
\* address outside the hook ranges is an error only when validateIP is set.
ValidateGitHubEvent(validateIP, rq) ==
    IF rq.etype = "" THEN "missing event type"
    ELSE IF ~IsGitHubIP(rq.remote) /\ validateIP
         THEN "request from non-GitHub IP"
         ELSE ""

\* The signature check with a fault: the digests are not compared.
VerifySignatureNoCompare(sig, payload) ==
    IF sig = NoSignature THEN "missing signature"
    ELSE IF sig.prefix # "sha256=" THEN "invalid signature format"
    ELSE IF ~sig.hex THEN "invalid signature hex"
    ELSE ""

\* Handler.VerifySignature: the header must be present, start with sha256=,
\* decode as hexadecimal, and equal the HMAC of the payload under the secret.
VerifySignature(sig, payload) ==
    IF sig = NoSignature THEN "missing signature"
    ELSE IF sig.prefix # "sha256=" THEN "invalid signature format"
    ELSE IF ~sig.hex THEN "invalid signature hex"
    ELSE IF sig.mac # HMAC(Secret, payload) THEN "invalid signature"
    ELSE ""

\* The checks at the head of ServeHTTP in their order, as the status and the
\* error text of the rejection; status 0 when the request passes.
Validate(validateIP, rq) ==
    LET ev == ValidateGitHubEvent(validateIP, rq)
        sg == VerifySignature(rq.sig, rq.body)
    IN IF rq.method # "POST" THEN [status |-> 405, err |-> "invalid method"]
       ELSE IF ev # "" THEN [status |-> 400, err |-> ev]
       ELSE IF sg # "" THEN [status |-> 401, err |-> sg]
       ELSE [status |-> 0, err |-> ""]

\* Handler.ServeHTTP from its first statement, for any request whose body
\* has arrived in full, served by a handler constructed with the given
\* validateIP option: a request that fails a check is answered with
\* http.Error and the handler returns; one that passes goes on to StoreEvent.
HandleDelivery(p, validateIP, rq) ==
    LET v == Validate(validateIP, rq)
    IN IF v.status # 0
       THEN /\ Free(p)
            /\ call' = [call EXCEPT ![p] =
                    [IdleCall EXCEPT !.pc = "done", !.op = "ingest",
                                     !.status = v.status, !.err = v.err]]
            /\ UNCHANGED <<events, now, nextUUID, fq, sw, mq, mpc, gauge,
                           ctxDone, okSent, failedSent, delivered, cap,
                   ipv>>
       ELSE ServeHTTP(p, [did |-> rq.did, etype |-> rq.etype,
                          body |-> rq.body])

\* ReplayEvent / resolveReplayEvent up to the call of StoreEvent: GetEvent,
\* "not found" for an absent id, else the replay Event.
ReplayEvent(p, facade, id) ==
    /\ Free(p)
    /\ IF ~HasEvent(events, id)
       THEN /\ call' = [call EXCEPT ![p] =
                    [IdleCall EXCEPT !.pc = "done", !.op = facade,
                                     !.err = "event not found",
                                     !.status = 404]]
            /\ UNCHANGED nextUUID
       ELSE /\ nextUUID < MaxUUID
            /\ Cardinality(events) + InFlight < MaxRows
            /\ nextUUID' = nextUUID + 1
            /\ call' = [call EXCEPT ![p] =
                    [IdleCall EXCEPT !.pc = "probe", !.op = facade,
                        !.ev = IF facade = "rest"
                               THEN RestReplayEvent(GetEvent(events, id),
                                                    UUIDs[nextUUID + 1], now)
                               ELSE GqlReplayEvent(GetEvent(events, id),
                                                   UUIDs[nextUUID + 1], now)]]
    /\ UNCHANGED <<events, now, fq, sw, mq, mpc, gauge, ctxDone, okSent,
                   failedSent, delivered, cap,
                   ipv>>

\* BaseStorage.StoreEvent, first statement: the existence probe.
StoreEventProbe(p) ==
    /\ call[p].pc = "probe"
    /\ call' = [call EXCEPT ![p].pc = "write",
                            ![p].exists = Exists(events, call[p].ev.id)]
    /\ UNCHANGED <<events, now, nextUUID, fq, sw, mq, mpc, gauge, ctxDone,
                   okSent, failedSent, delivered, cap,
                   ipv>>

\* BaseStorage.StoreEvent, second statement: UPDATE when the probe found
\* the id, INSERT otherwise; an INSERT the primary key rejects is returned
\* as "inserting event".
StoreEventWrite(p) ==
    /\ call[p].pc = "write"
    /\ IF call[p].exists
       THEN /\ events' = UpdateExisting(events, call[p].ev)
            /\ call' = [call EXCEPT ![p].pc = "respond",
                                    ![p].exists = FALSE]
       ELSE IF PrimaryKeyConflict(events, call[p].ev.id)
       THEN /\ events' = events
            /\ call' = [call EXCEPT ![p].pc = "respond",
                                    ![p].err = "inserting event"]
       ELSE /\ events' = events \cup {InsertRow(call[p].ev)}
            /\ call' = [call EXCEPT ![p].pc = "respond"]
    /\ UNCHANGED <<now, nextUUID, fq, sw, mq, mpc, gauge, ctxDone, okSent,
                   failedSent, delivered, cap,
                   ipv>>

\* The status with a fault: a storage error is answered with 500.
IngestStatusOfError(err) == IF err = "" THEN 200 ELSE 500

\* w.WriteHeader(http.StatusOK), whatever StoreEvent returned.
IngestStatus(err) == 200

\* The send with a fault: c.queue <- struct{}{} without a default case
\* waits for room in the queue.
SendReadyWhenRoom(q) == q < QueueCap

\* select { case c.queue <- struct{}{}: default: }: the statement never
\* waits, whatever the queue holds.
SendReady(q) == TRUE

\* The end of the handler.  ServeHTTP logs a storage error, enqueues a
\* metrics job and answers 200 with an empty body; the replay handlers
\* answer 500 on a storage error and 200 with the replay Event otherwise.
Respond(p) ==
    /\ call[p].pc = "respond"
    /\ call[p].op \in {"ingest", "rest", "graphql"}
    /\ IF call[p].op = "ingest"
       THEN /\ SendReady(mq)
            /\ mq' = Enqueue(mq)
            /\ call' = [call EXCEPT ![p] =
                    [IdleCall EXCEPT !.pc = "done", !.op = "ingest",
                                     !.status = IngestStatus(call[p].err),
                                     !.counted = (call[p].err = "")]]
       ELSE /\ mq' = mq
            /\ call' = [call EXCEPT ![p].pc = "done",
                    ![p].status = IF call[p].err = "" THEN 200 ELSE 500]
    /\ UNCHANGED <<events, now, nextUUID, fq, sw, mpc, gauge, ctxDone,
                   okSent, failedSent, delivered, cap,
                   ipv>>

----------------------------------------------------------------------------
(* Range replay *)

\* The limit with a fault: no default when the request gives none.
ReplayLimitNoDefault(arg) == arg

\* opts.Limit of a range replay: 100 unless a positive limit is given.
ReplayLimit(arg) == IF arg > 0 THEN arg ELSE DefaultReplayLimit

\* The number of rows a SELECT of n matching rows returns under
\* if opts.Limit > 0 { query = query.Limit(opts.Limit) }.
LimitCount(n, limit) == IF limit > 0 /\ limit < n THEN limit ELSE n

\* The number of rows left of n matching rows under
\* if opts.Offset > 0 { query = query.Offset(opts.Offset) }.
OffsetCount(n, offset) ==
    IF offset > 0 THEN (IF offset < n THEN n - offset ELSE 0) ELSE n

\* The results ListEvents may return: the SELECT has no ORDER BY, so any
\* rows of the matching ones, as many as OFFSET and LIMIT leave.
ListEvents(tbl, opts) ==
    LET rows == FilterRows(tbl, opts)
    IN { page \in SUBSET rows :
            Cardinality(page) =
                LimitCount(OffsetCount(Cardinality(rows), opts.offset),
                           opts.limit) }

\* CountEvents, and the total of ListEvents: SELECT COUNT(*) under the same
\* conditions.
CountEvents(tbl, opts) == Cardinality(FilterRows(tbl, opts))

\* The limit arguments of a range replay: none (0), an explicit
\* non-positive one, an explicit positive one.
LimitArgs == {0, -1, 1}

\* The since/until arguments of a range replay.
Windows == { [since |-> a, until |-> b] : a, b \in 1..MaxClock }

\* The QueryOptions a range replay builds from its arguments.
RangeOpts(w, arg) ==
    [NoOpts EXCEPT !.since = w.since, !.until = w.until,
                   !.limit = ReplayLimit(arg)]

RangeOps == {"restRange", "graphqlRange"}

\* RangeEmpty with a fault: an empty listing is not told apart.
RangeEmptyNever(page) == FALSE

\* if len(events) == 0
RangeEmpty(page) == page = {}

\* ReplayRange / resolveReplayRange up to the loop: the REST facade rejects
\* an explicit non-positive limit with 400; an empty listing is answered
\* with 404 / "no events found in range".
ReplayRange(p, op, w, arg, page) ==
    /\ Free(p)
    /\ IF op = "restRange" /\ arg < 0
       THEN call' = [call EXCEPT ![p] =
                [IdleCall EXCEPT !.pc = "done", !.op = op,
                                 !.err = "Limit must be positive",
                                 !.status = 400]]
       ELSE /\ page \in ListEvents(events, RangeOpts(w, arg))
            /\ nextUUID + Cardinality(page) <= MaxUUID
            /\ IF RangeEmpty(page)
               THEN call' = [call EXCEPT ![p] =
                        [IdleCall EXCEPT !.pc = "done", !.op = op,
                                         !.err = "no events found in range",
                                         !.status = 404]]
               ELSE call' = [call EXCEPT ![p] =
                        [IdleCall EXCEPT !.pc = "range", !.op = op,
                                         !.n = Cardinality(page),
                                         !.todo = page]]
    /\ UNCHANGED <<events, now, nextUUID, fq, sw, mq, mpc, gauge, ctxDone,
                   okSent, failedSent, delivered, cap,
                   ipv>>

\* The loop body up to the call of StoreEvent: the replay Event of the
\* next listed event.
RangeBuild(p, src) ==
    /\ call[p].pc = "range"
    /\ src \in call[p].todo
    /\ nextUUID' = nextUUID + 1
    /\ call' = [call EXCEPT ![p].pc = "probe",
                            ![p].todo = call[p].todo \ {src},
                            ![p].ev = IF call[p].op = "restRange"
                                      THEN RestReplayEvent(src,
                                               UUIDs[nextUUID + 1], now)
                                      ELSE GqlReplayEvent(src,
                                               UUIDs[nextUUID + 1], now)]
    /\ UNCHANGED <<events, now, fq, sw, mq, mpc, gauge, ctxDone, okSent,
                   failedSent, delivered, cap,
                   ipv>>

\* The failed StoreEvent with a fault: the loop skips the item and goes on
\* with the next listed event.
RangeSkipItem(c) ==
    [c EXCEPT !.pc = IF c.todo = {} THEN "done" ELSE "range",
              !.status = IF c.todo = {} THEN 200 ELSE 0,
              !.err = ""]

\* The state of the call after a failed StoreEvent in the loop: the
\* handler answers 500 and returns.
RangeAbort(c) == [c EXCEPT !.pc = "done", !.status = 500, !.todo = {}]

\* The loop body after StoreEvent returned, and the response after the
\* last iteration.
RangeStored(p) ==
    /\ call[p].pc = "respond"
    /\ call[p].op \in RangeOps
    /\ IF call[p].err # ""
       THEN call' = [call EXCEPT ![p] = RangeAbort(call[p])]
       ELSE call' = [call EXCEPT
                ![p].made = call[p].made \cup {call[p].ev},
                ![p].pc = IF call[p].todo = {} THEN "done" ELSE "range",
                ![p].status = IF call[p].todo = {} THEN 200 ELSE 0]
    /\ UNCHANGED <<events, now, nextUUID, fq, sw, mq, mpc, gauge, ctxDone,
                   okSent, failedSent, delivered, cap,
                   ipv>>

\* A StoreEvent call whose first statement fails in the database:
\* "checking event existence".
StoreEventFails(p) ==
    /\ call[p].pc = "probe"
    /\ call' = [call EXCEPT ![p].pc = "respond",
                            ![p].err = "checking event existence"]
    /\ UNCHANGED <<events, now, nextUUID, fq, sw, mq, mpc, gauge, ctxDone,
                   okSent, failedSent, delivered, cap,
                   ipv>>

----------------------------------------------------------------------------
(* The forwarding engine *)

\* WebhookForwarder.EnqueueProcessEvents, called by any goroutine.
EnqueueProcessEvents ==
    /\ fq' = Enqueue(fq)
    /\ UNCHANGED <<events, now, nextUUID, call, sw, mq, mpc, gauge, ctxDone,
                   okSent, failedSent, delivered, cap,
                   ipv>>

\* StartForwarder with a fault: the worker loop is spawned and nothing is
\* enqueued.
StartForwarderNoEnqueue ==
    /\ sw["worker"].pc = "none"
    /\ sw' = [sw EXCEPT !["worker"].pc = "idle"]
    /\ UNCHANGED <<events, now, nextUUID, call, fq, mq, mpc, gauge, ctxDone,
                   okSent, failedSent, delivered, cap,
                   ipv>>

\* WebhookForwarder.StartForwarder: spawn the worker loop, then enqueue one
\* request.
StartForwarder ==
    /\ sw["worker"].pc = "none"
    /\ sw' = [sw EXCEPT !["worker"].pc = "idle"]
    /\ fq' = Enqueue(fq)
    /\ UNCHANGED <<events, now, nextUUID, call, mq, mpc, gauge, ctxDone,
                   okSent, failedSent, delivered, cap,
                   ipv>>

\* WorkerReady with a fault: the loop takes a request at any point.
WorkerReadyAlways == sw["worker"].pc # "none"

\* The worker loop is at its select statement.
WorkerReady == sw["worker"].pc = "idle"

\* The worker loop, case <-f.queue: take the request and call
\* ProcessEvents.
WorkerReceive ==
    /\ WorkerReady
    /\ fq > 0
    /\ fq' = fq - 1
    /\ sw' = [sw EXCEPT !["worker"] = [IdleSweep EXCEPT !.pc = "list"]]
    /\ UNCHANGED <<events, now, nextUUID, call, mq, mpc, gauge, ctxDone,
                   okSent, failedSent, delivered, cap,
                   ipv>>

\* The worker loop, case <-ctx.Done(): return.
WorkerStop ==
    /\ WorkerReady
    /\ ctxDone
    /\ sw' = [sw EXCEPT !["worker"].pc = "stopped"]
    /\ UNCHANGED <<events, now, nextUUID, call, fq, mq, mpc, gauge, ctxDone,
                   okSent, failedSent, delivered, cap,
                   ipv>>

\* ProcessEvents called directly, outside the worker loop, as the
\* integration tests do while the worker runs.
DirectProcessEvents ==
    /\ sw["direct"].pc = "idle"
    /\ sw' = [sw EXCEPT !["direct"].pc = "list"]
    /\ UNCHANGED <<events, now, nextUUID, call, fq, mq, mpc, gauge, ctxDone,
                   okSent, failedSent, delivered, cap,
                   ipv>>

\* ctx.Err() of the context a sweep runs with: the worker's sweeps run with
\* the forwarder's context, a direct caller brings a context of its own.
\* A database call made with a cancelled context returns the context's
\* error without touching the table.
CtxErr(s) == s = "worker" /\ ctxDone

\* ProcessEvents: ListEvents(ctx, OnlyNonForwarded); return when the
\* listing fails or nothing is listed.  seen is history: the ids delivered
\* before this listing.
ProcessEventsList(s) ==
    /\ sw[s].pc = "list"
    /\ LET l == IF CtxErr(s) THEN {} ELSE FilterRows(events, SweepOpts)
       IN sw' = [sw EXCEPT ![s] =
                    [ pc |-> IF l = {} THEN "idle" ELSE "fwd",
                      todo |-> l, cur |-> NoEvent,
                      seen |-> IF l = {} THEN {} ELSE delivered,
                      late |-> FALSE ]]
    /\ UNCHANGED <<events, now, nextUUID, call, fq, mq, mpc, gauge, ctxDone,
                   okSent, failedSent, delivered, cap,
                   ipv>>

\* The targets a forwarder may be configured with: an HTTP URL and a local
\* socket.
TargetURLs == {"http://target/webhook", "unix:///tmp/target.sock"}

\* json.Unmarshal(event.Headers, &headers) and the loop of
\* req.Header.Add(name, value): the name/value pairs the request carries.
HeaderPairs(blob) == { blob[i] : i \in 1..Len(blob) }

\* ForwardRequest with a fault: the headers are not copied onto the
\* request built for a local socket.
ForwardRequestBare(target, e) ==
    [ url |-> IF target = "unix:///tmp/target.sock"
              THEN "http://127.0.0.1/webhook" ELSE target,
      method |-> "POST",
      body |-> e.payload,
      header |-> IF target = "unix:///tmp/target.sock"
                 THEN {} ELSE HeaderPairs(e.headers) ]

\* forwardEvent up to httpClient.Do: the request it builds for an event.  A
\* unix:// target gets a placeholder URL, the socket being dialled by the
\* client's transport; the body is the payload, the headers are the stored
\* ones.
ForwardRequest(target, e) ==
    [ url |-> IF target = "unix:///tmp/target.sock"
              THEN "http://127.0.0.1/webhook" ELSE target,
      method |-> "POST",
      body |-> e.payload,
      header |-> HeaderPairs(e.headers) ]

\* EventDone with a fault: the sweep gives up the events still listed.
EventDoneDropsRest(r) ==
    [r EXCEPT !.pc = "fwd", !.cur = NoEvent, !.late = FALSE, !.todo = {}]

\* The sweep is done with the current event.
EventDone(r) == [r EXCEPT !.pc = "fwd", !.cur = NoEvent, !.late = FALSE]

\* forwardEvent up to httpClient.Do, for the next listed event (the SELECT
\* has no ORDER BY: any order): build the request from the payload, parse
\* the stored headers (return on a parse error), issue the request.
ForwardEventBegin(s, e) ==
    /\ sw[s].pc = "fwd"
    /\ e \in sw[s].todo
    /\ IF HeadersParse(e.headers)
       THEN sw' = [sw EXCEPT ![s].pc = "sending", ![s].cur = e,
                            ![s].todo = sw[s].todo \ {e}]
       ELSE sw' = [sw EXCEPT ![s].todo = sw[s].todo \ {e}]
    /\ UNCHANGED <<events, now, nextUUID, call, fq, mq, mpc, gauge, ctxDone,
                   okSent, failedSent, delivered, cap,
                   ipv>>

Outcomes == {"ok", "status", "transport"}

\* The outcome test with a fault: a status >= 400 is taken for success.
SendSucceededAnyStatus(outcome) == outcome \in {"ok", "status"}

\* err == nil from Do and resp.StatusCode < 400.
SendSucceeded(outcome) == outcome = "ok"

\* forwardEvent after httpClient.Do returned: a transport error or a
\* status >= 400 ends the event's turn; otherwise MarkForwarded follows.
\* late is history: the response came when the context was cancelled.
ForwardEventResponse(s, outcome) ==
    /\ sw[s].pc = "sending"
    /\ okSent' = IF outcome = "ok" THEN okSent \cup {sw[s].cur.id}
                 ELSE okSent
    /\ failedSent' = IF outcome = "ok" THEN failedSent
                     ELSE failedSent \cup {sw[s].cur.id}
    /\ IF SendSucceeded(outcome)
       THEN sw' = [sw EXCEPT ![s].pc = "mark", ![s].late = CtxErr(s)]
       ELSE sw' = [sw EXCEPT ![s] = EventDone(sw[s])]
    /\ UNCHANGED <<events, now, nextUUID, call, fq, mq, mpc, gauge, ctxDone,
                   delivered, cap,
                   ipv>>

\* forwardEvent, last statement: storage.MarkForwarded(ctx, event.ID); its
\* error is logged and nothing else.
ForwardEventMark(s) ==
    /\ sw[s].pc = "mark"
    /\ events' = IF CtxErr(s) THEN events
                 ELSE MarkForwarded(events, sw[s].cur.id, now)
    /\ delivered' = IF CtxErr(s) \/ MarkForwardedErr(events, sw[s].cur.id)
                    THEN delivered
                    ELSE delivered \cup {sw[s].cur.id}
    /\ sw' = [sw EXCEPT ![s] = EventDone(sw[s])]
    /\ UNCHANGED <<now, nextUUID, call, fq, mq, mpc, gauge, ctxDone,
                   okSent, failedSent, cap,
                   ipv>>

\* forwardEvent, last statement, when the database fails the UPDATE:
\* ExecContext returns an error, no row is written, the error is logged.
ForwardEventMarkFails(s) ==
    /\ sw[s].pc = "mark"
    /\ sw' = [sw EXCEPT ![s] = EventDone(sw[s])]
    /\ UNCHANGED <<events, now, nextUUID, call, fq, mq, mpc, gauge, ctxDone,
                   okSent, failedSent, delivered, cap,
                   ipv>>

\* ProcessEvents after the loop: enqueue a metrics job and return.
ProcessEventsEnd(s) ==
    /\ sw[s].pc = "fwd"
    /\ sw[s].todo = {}
    /\ mq' = Enqueue(mq)
    /\ sw' = [sw EXCEPT ![s] = IdleSweep]
    /\ UNCHANGED <<events, now, nextUUID, call, fq, mpc, gauge, ctxDone,
                   okSent, failedSent, delivered, cap,
                   ipv>>

----------------------------------------------------------------------------
(* The origin allowlist: refresh, replacement and lookup *)

\* NewIPValidator: with skipUpdates nothing more; otherwise the initial
\* Update, after which the background updater is spawned.
NewIPValidator(skipUpdates) ==
    /\ ipv.bg = "new"
    /\ ipv' = IF skipUpdates
              THEN [ipv EXCEPT !.bg = "off"]
              ELSE [ipv EXCEPT !.bg = "init", !.upd.pc = "get"]
    /\ UNCHANGED <<events, now, nextUUID, call, fq, sw, mq, mpc, gauge,
                   ctxDone, okSent, failedSent, delivered, cap>>

\* backgroundUpdate, for range ticker.C: a tick starts an Update.  The loop
\* has no other exit.
BackgroundTick ==
    /\ ipv.bg = "wait"
    /\ ipv' = [ipv EXCEPT !.bg = "update", !.upd.pc = "get"]
    /\ UNCHANGED <<events, now, nextUUID, call, fq, sw, mq, mpc, gauge,
                   ctxDone, okSent, failedSent, delivered, cap>>

\* The caller of Update after Update returned: the constructor spawns the
\* background updater, the background updater waits for the next tick.
UpdateReturned(v) == [v EXCEPT !.upd.pc = "idle", !.bg = "wait"]

\* Update, http.Get: a transport error is returned; otherwise the response
\* is in hand.  The lock is not held.
UpdateGet(resp) ==
    /\ ipv.upd.pc = "get"
    /\ ipv' = IF resp.err
              THEN UpdateReturned([ipv EXCEPT
                       !.upd.resp = resp,
                       !.upd.err = "fetching GitHub meta"])
              ELSE [ipv EXCEPT !.upd.pc = "decode", !.upd.resp = resp,
                               !.upd.err = ""]
    /\ UNCHANGED <<events, now, nextUUID, call, fq, sw, mq, mpc, gauge,
                   ctxDone, okSent, failedSent, delivered, cap>>

\* Update, from Decode to the end of the parsing loop: a body that does
\* not decode, or a range that does not parse, is returned as an error;
\* otherwise the new slice is complete.  The status is not looked at.
UpdateParse ==
    /\ ipv.upd.pc = "decode"
    /\ LET meta == Decode(ipv.upd.resp)
           parsed == ParseCIDRs(meta.hooks)
       IN ipv' = IF ~meta.ok
                 THEN UpdateReturned([ipv EXCEPT
                          !.upd.err = "decoding GitHub meta"])
                 ELSE IF ~parsed.ok
                 THEN UpdateReturned([ipv EXCEPT
                          !.upd.err = "parsing CIDR"])
                 ELSE [ipv EXCEPT !.upd.pc = "lock",
                                  !.upd.nets = parsed.nets]
    /\ UNCHANGED <<events, now, nextUUID, call, fq, sw, mq, mpc, gauge,
                   ctxDone, okSent, failedSent, delivered, cap>>

\* v.mu.Lock(): waits until no reader and no writer holds the lock.
Lock(mu, who) ==
    IF mu.w = "none" /\ mu.r = 0
    THEN [ ok |-> TRUE, mu |-> [mu EXCEPT !.w = who] ]
    ELSE [ ok |-> FALSE, mu |-> mu ]

\* The assignment with a fault: the new ranges are appended to the slice
\* in place.
AssignInPlace(old, new) == old \o new

\* v.webhookCIDR = cidrs: the slice is replaced.
Assign(old, new) == new

UpdateLock ==
    /\ ipv.upd.pc = "lock"
    /\ Lock(ipv.mu, "update").ok
    /\ ipv' = [ipv EXCEPT !.upd.pc = "assign",
                          !.mu = Lock(ipv.mu, "update").mu]
    /\ UNCHANGED <<events, now, nextUUID, call, fq, sw, mq, mpc, gauge,
                   ctxDone, okSent, failedSent, delivered, cap>>

UpdateAssign ==
    /\ ipv.upd.pc = "assign"
    /\ ipv' = [ipv EXCEPT !.upd.pc = "unlock",
                          !.webhookCIDR = Assign(@, ipv.upd.nets)]
    /\ UNCHANGED <<events, now, nextUUID, call, fq, sw, mq, mpc, gauge,
                   ctxDone, okSent, failedSent, delivered, cap>>

\* v.mu.Unlock() and return nil.
UpdateUnlock ==
    /\ ipv.upd.pc = "unlock"
    /\ ipv' = UpdateReturned([ipv EXCEPT !.mu.w = "none"])
    /\ UNCHANGED <<events, now, nextUUID, call, fq, sw, mq, mpc, gauge,
                   ctxDone, okSent, failedSent, delivered, cap>>

\* SetWebhookCIDRs up to the lock: the ranges are parsed; an error is
\* returned at the first that does not parse.
SetWebhookCIDRs(cidrs) ==
    /\ ipv.bg \notin {"new", "init"}
    /\ ipv.set.pc = "idle"
    /\ LET parsed == ParseCIDRs(cidrs)
       IN ipv' = IF parsed.ok
                 THEN [ipv EXCEPT !.set.pc = "lock",
                                  !.set.nets = parsed.nets]
                 ELSE ipv
    /\ UNCHANGED <<events, now, nextUUID, call, fq, sw, mq, mpc, gauge,
                   ctxDone, okSent, failedSent, delivered, cap>>

SetLock ==
    /\ ipv.set.pc = "lock"
    /\ Lock(ipv.mu, "set").ok
    /\ ipv' = [ipv EXCEPT !.set.pc = "assign",
                          !.mu = Lock(ipv.mu, "set").mu]
    /\ UNCHANGED <<events, now, nextUUID, call, fq, sw, mq, mpc, gauge,
                   ctxDone, okSent, failedSent, delivered, cap>>

SetAssign ==
    /\ ipv.set.pc = "assign"
    /\ ipv' = [ipv EXCEPT !.set.pc = "unlock",
                          !.webhookCIDR = Assign(@, ipv.set.nets)]
    /\ UNCHANGED <<events, now, nextUUID, call, fq, sw, mq, mpc, gauge,
                   ctxDone, okSent, failedSent, delivered, cap>>

SetUnlock ==
    /\ ipv.set.pc = "unlock"
    /\ ipv' = [ipv EXCEPT !.set.pc = "idle", !.mu.w = "none"]
    /\ UNCHANGED <<events, now, nextUUID, call, fq, sw, mq, mpc, gauge,
                   ctxDone, okSent, failedSent, delivered, cap>>

\* IsGitHubIP up to the lock: an address that does not parse is answered
\* false at once.
IsGitHubIPBegin(str) ==
    /\ ipv.bg \notin {"new", "init"}
    /\ ipv.rd.pc \in {"idle", "done"}
    /\ ipv' = [ipv EXCEPT !.rd =
                 IF ParseIP(str) = NoIP
                 THEN [IdleRead EXCEPT !.pc = "done", !.addr = str]
                 ELSE [IdleRead EXCEPT !.pc = "rlock", !.addr = str,
                                       !.ip = ParseIP(str)]]
    /\ UNCHANGED <<events, now, nextUUID, call, fq, sw, mq, mpc, gauge,
                   ctxDone, okSent, failedSent, delivered, cap>>

\* v.mu.RLock() and the evaluation of the range expression: waits while a
\* writer holds the lock; the loop runs over the slice as it is now.
IsGitHubIPRLock ==
    /\ ipv.rd.pc = "rlock"
    /\ ipv.mu.w = "none"
    /\ ipv' = [ipv EXCEPT !.mu.r = @ + 1,
                          !.rd.pc = "loop",
                          !.rd.iter = ipv.webhookCIDR,
                          !.rd.i = 1]
    /\ UNCHANGED <<events, now, nextUUID, call, fq, sw, mq, mpc, gauge,
                   ctxDone, okSent, failedSent, delivered, cap>>

\* One turn of the loop: true at the first range that contains the
\* address, false after the last.
IsGitHubIPLoop ==
    /\ ipv.rd.pc = "loop"
    /\ ipv' = IF ipv.rd.i > Len(ipv.rd.iter)
              THEN [ipv EXCEPT !.rd.pc = "runlock", !.rd.ans = FALSE]
              ELSE IF Contains(ipv.rd.iter[ipv.rd.i], ipv.rd.ip)
              THEN [ipv EXCEPT !.rd.pc = "runlock", !.rd.ans = TRUE]
              ELSE [ipv EXCEPT !.rd.i = @ + 1]
    /\ UNCHANGED <<events, now, nextUUID, call, fq, sw, mq, mpc, gauge,
                   ctxDone, okSent, failedSent, delivered, cap>>

\* The deferred v.mu.RUnlock().
IsGitHubIPRUnlock ==
    /\ ipv.rd.pc = "runlock"
    /\ ipv' = [ipv EXCEPT !.mu.r = @ - 1, !.rd.pc = "done"]
    /\ UNCHANGED <<events, now, nextUUID, call, fq, sw, mq, mpc, gauge,
                   ctxDone, okSent, failedSent, delivered, cap>>

\* The steps of one Update call.
Update ==
    \/ \E resp \in Responses : UpdateGet(resp)
    \/ UpdateParse
    \/ UpdateLock
    \/ UpdateAssign
    \/ UpdateUnlock

\* The steps of the SetWebhookCIDRs calls.
SetCIDRs ==
    \/ \E cidrs \in HookLists : SetWebhookCIDRs(cidrs)
    \/ SetLock
    \/ SetAssign
    \/ SetUnlock

\* The steps of the IsGitHubIP calls.
IsAllowed ==
    \/ \E str \in AddrStrings : IsGitHubIPBegin(str)
    \/ IsGitHubIPRLock
    \/ IsGitHubIPLoop
    \/ IsGitHubIPRUnlock

----------------------------------------------------------------------------
(* The statistics collector *)

\* GetStats with a fault: the query has no WHERE clause.
GetStatsNoSince(tbl, since) ==
    [ty \in {r.type : r \in tbl} |->
        Cardinality({x \in tbl : x.type = ty})]

\* GetStats(since): SELECT type, COUNT(*) ... WHERE created_at >= since
\* GROUP BY type; a type without rows has no entry.
GetStats(tbl, since) ==
    [ty \in {r.type : r \in {x \in tbl : x.createdAt >= since}} |->
        Cardinality({x \in tbl : x.type = ty /\ x.createdAt >= since})]

\* DBMetricsCollector.StartMetricsCollection: spawn the worker, spawn the
\* ticker when an interval is given, enqueue one job.
StartMetricsCollection(withInterval) ==
    /\ mpc.w = "none"
    /\ mpc' = [w |-> "idle", t |-> IF withInterval THEN "run" ELSE "none"]
    /\ mq' = Enqueue(mq)
    /\ UNCHANGED <<events, now, nextUUID, call, fq, sw, gauge, ctxDone,
                   okSent, failedSent, delivered, cap,
                   ipv>>

\* DBMetricsCollector.StartMetricsCollection of a collector constructed
\* without a store: return at once, with no worker, no ticker and no job.
StartMetricsCollectionNilStore ==
    /\ mpc.w = "none"
    /\ mpc' = [w |-> "off", t |-> "none"]
    /\ UNCHANGED <<events, now, nextUUID, call, fq, sw, mq, gauge, ctxDone,
                   okSent, failedSent, delivered, cap,
                   ipv>>

\* The metrics worker, case <-c.queue.
MetricsReceive ==
    /\ mpc.w = "idle"
    /\ mq > 0
    /\ mq' = mq - 1
    /\ mpc' = [mpc EXCEPT !.w = "gather"]
    /\ UNCHANGED <<events, now, nextUUID, call, fq, sw, gauge, ctxDone,
                   okSent, failedSent, delivered, cap,
                   ipv>>

\* GatherMetrics with a fault: the worker empties the queue when its run
\* is over.
GatherMetricsDrains ==
    /\ mpc.w = "gather"
    /\ LET stats == GetStats(events, NoTime)
       IN gauge' = [ty \in EventTypes |->
                      IF ty \in DOMAIN stats THEN stats[ty] ELSE gauge[ty]]
    /\ mpc' = [mpc EXCEPT !.w = "idle"]
    /\ mq' = 0
    /\ UNCHANGED <<events, now, nextUUID, call, fq, sw, ctxDone,
                   okSent, failedSent, delivered, cap,
                   ipv>>

\* DBMetricsCollector.GatherMetrics: set the gauge of every type GetStats
\* returned.
GatherMetrics ==
    /\ mpc.w = "gather"
    /\ LET stats == GetStats(events, NoTime)
       IN gauge' = [ty \in EventTypes |->
                      IF ty \in DOMAIN stats THEN stats[ty] ELSE gauge[ty]]
    /\ mpc' = [mpc EXCEPT !.w = "idle"]
    /\ UNCHANGED <<events, now, nextUUID, call, fq, sw, mq, ctxDone,
                   okSent, failedSent, delivered, cap,
                   ipv>>

\* The metrics ticker, case <-ticker.C: EnqueueGatherMetrics.
MetricsTick ==
    /\ mpc.t = "run"
    /\ mq' = Enqueue(mq)
    /\ UNCHANGED <<events, now, nextUUID, call, fq, sw, mpc, gauge, ctxDone,
                   okSent, failedSent, delivered, cap,
                   ipv>>

\* The metrics worker and the ticker, case <-ctx.Done().
MetricsStop ==
    /\ ctxDone
    /\ \/ mpc.w = "idle" /\ mpc' = [mpc EXCEPT !.w = "stopped"]
       \/ mpc.t = "run" /\ mpc' = [mpc EXCEPT !.t = "stopped"]
    /\ UNCHANGED <<events, now, nextUUID, call, fq, sw, mq, gauge, ctxDone,
                   okSent, failedSent, delivered, cap,
                   ipv>>

----------------------------------------------------------------------------
(* The environment *)

\* Time passes.
Tick ==
    /\ now < MaxClock
    /\ now' = now + 1
    /\ UNCHANGED <<events, nextUUID, call, fq, sw, mq, mpc, gauge, ctxDone,
                   okSent, failedSent, delivered, cap,
                   ipv>>

\* The context of the background tasks is cancelled.
Cancel ==
    /\ ~ctxDone
    /\ ctxDone' = TRUE
    /\ UNCHANGED <<events, now, nextUUID, call, fq, sw, mq, mpc, gauge,
                   okSent, failedSent, delivered, cap,
                   ipv>>

\* The filters a listing request may carry: types, a window, repository,
\* sender and the not-yet-forwarded flag, each set or not.
FilterOpts ==
    { [NoOpts EXCEPT !.types = ty, !.since = a, !.until = b,
                     !.repository = rp, !.sender = sn,
                     !.onlyNonForwarded = nf] :
        ty \in {{}, {"push"}}, a \in {NoTime, MaxClock}, b \in {NoTime, 1},
        rp \in {"", "test/repo"}, sn \in {"", "test-user"},
        nf \in BOOLEAN }

\* The pages a listing request may ask for, with and without a filter.
PageOpts ==
    { [NoOpts EXCEPT !.onlyNonForwarded = nf, !.limit = l, !.offset = o] :
        nf \in BOOLEAN, l \in 0..MaxRows, o \in 0..MaxRows }

\* A caller of Storage.ListEvents holding what the call returned.
Listed(opts, page, total) ==
    [ pc |-> "listed", op |-> "list", opts |-> opts, page |-> page,
      total |-> total ]

\* Storage.ListEvents(opts): the COUNT(*) query, then the page query.
ListEventsCall(p, opts, page) ==
    /\ Free(p)
    /\ page \in ListEvents(events, opts)
    /\ call' = [call EXCEPT ![p] =
                   Listed(opts, page, CountEvents(events, opts))]
    /\ UNCHANGED <<events, now, nextUUID, fq, sw, mq, mpc, gauge, ctxDone,
                   okSent, failedSent, delivered, cap,
                   ipv>>

\* Storage.ListEvents(opts), first query: SELECT COUNT(*) under the
\* conditions of opts.  The two queries run on the connection pool, outside
\* any transaction, so other goroutines may write between them.
ListEventsCount(p, opts) ==
    /\ Free(p)
    /\ call' = [call EXCEPT ![p] =
                   [Listed(opts, {}, CountEvents(events, opts))
                       EXCEPT !.pc = "counted"]]
    /\ UNCHANGED <<events, now, nextUUID, fq, sw, mq, mpc, gauge, ctxDone,
                   okSent, failedSent, delivered, cap,
                   ipv>>

\* Storage.ListEvents(opts), second query: the page, read from the table
\* as it is now; the call returns the page and the total counted before.
ListEventsPage(p) ==
    /\ call[p].pc = "counted"
    /\ \E page \in ListEvents(events, call[p].opts) :
          call' = [call EXCEPT ![p] =
                      Listed(call[p].opts, page, call[p].total)]
    /\ UNCHANGED <<events, now, nextUUID, fq, sw, mq, mpc, gauge, ctxDone,
                   okSent, failedSent, delivered, cap,
                   ipv>>

\* The caller is done with the listing.
ListEventsReturn(p) ==
    /\ call[p].pc = "listed"
    /\ call' = [call EXCEPT ![p] = [IdleCall EXCEPT !.pc = "done",
                                                    !.op = "list"]]
    /\ UNCHANGED <<events, now, nextUUID, fq, sw, mq, mpc, gauge, ctxDone,
                   okSent, failedSent, delivered, cap,
                   ipv>>

\* The ids a replay request may name: a delivery id, stored or not.
SourceIds == { <<d>> : d \in DeliveryIds }

----------------------------------------------------------------------------
(* Specifications *)

\* The steps of one request goroutine that serves inbound deliveries.
Ingest(p) ==
    \/ \E d \in Deliveries : ServeHTTP(p, d)
    \/ StoreEventProbe(p)
    \/ StoreEventWrite(p)
    \/ Respond(p)

\* The steps of one request goroutine.
Request(p) ==
    \/ Ingest(p)
    \/ \E f \in {"rest", "graphql"}, id \in SourceIds : ReplayEvent(p, f, id)

\* The steps of one sweep.
Sweep(s) ==
    \/ ProcessEventsList(s)
    \/ \E e \in sw[s].todo : ForwardEventBegin(s, e)
    \/ \E o \in Outcomes : ForwardEventResponse(s, o)
    \/ ForwardEventMark(s)
    \/ ProcessEventsEnd(s)

\* The steps of one request goroutine that serves a range replay.
Range(p) ==
    \/ \E op \in RangeOps, w \in Windows, arg \in LimitArgs :
          \E page \in ListEvents(events, RangeOpts(w, arg)) :
              ReplayRange(p, op, w, arg, page)
    \/ \E src \in call[p].todo : RangeBuild(p, src)
    \/ StoreEventProbe(p)
    \/ StoreEventWrite(p)
    \/ RangeStored(p)

\* Ingestion, replay and the store under concurrent request goroutines.
Next ==
    \/ \E p \in Procs : Request(p)
    \/ Tick

Spec == Init /\ [][Next]_vars

\* One request goroutine, the forwarder's worker loop and a direct caller
\* of ProcessEvents.
FwdNext ==
    \/ Request("r1")
    \/ StartForwarder
    \/ EnqueueProcessEvents
    \/ WorkerReceive
    \/ DirectProcessEvents
    \/ \E s \in Sweepers : Sweep(s)
    \/ Tick

FwdSpec == Init /\ [][FwdNext]_vars

\* Both trigger queues with their enqueuers and workers, and cancellation.
QueueNext ==
    \/ Ingest("r1")
    \/ StartForwarder
    \/ EnqueueProcessEvents
    \/ WorkerReceive
    \/ WorkerStop
    \/ Sweep("worker")
    \/ \E i \in BOOLEAN : StartMetricsCollection(i)
    \/ MetricsReceive
    \/ GatherMetrics
    \/ MetricsTick
    \/ MetricsStop
    \/ Cancel

QueueSpec == Init /\ [][QueueNext]_vars

\* One request goroutine and the forwarder's worker loop, with the fairness
\* the Go scheduler gives a goroutine that can run: the worker is started,
\* takes a pending request and finishes every step of a sweep.  On top of
\* that the trigger is enqueued again and again and the target answers
\* with success again and again.
LiveNext ==
    \/ Request("r1")
    \/ StartForwarder
    \/ EnqueueProcessEvents
    \/ WorkerReceive
    \/ Sweep("worker")
    \/ Tick

LiveSpec ==
    /\ Init
    /\ [][LiveNext]_vars
    /\ WF_vars(StartForwarder)
    /\ WF_vars(EnqueueProcessEvents)
    /\ WF_vars(WorkerReceive)
    /\ WF_vars(Sweep("worker"))
    /\ SF_vars(ForwardEventResponse("worker", "ok"))

\* The API: ingestion and single replay by one request goroutine, range
\* replay by another, over a database that can fail.
ApiNext ==
    \/ Request("r1")
    \/ Range("r2")
    \/ StoreEventFails("r2")
    \/ Tick

ApiSpec == Init /\ [][ApiNext]_vars

----------------------------------------------------------------------------
(* Range replay over a large store: the rows are counted, not kept *)

MaxMatching == 150

\* The limit parameters of a request: absent (0), not positive, small, and
\* above the default.
CapLimitArgs == {-1, 0, 1, 2, 120}

\* ReplayRange up to the listing, over a window that holds m matching
\* events: the REST handler refuses a limit that is not positive; otherwise
\* ListEvents returns min(m, limit) rows, and an empty listing is an error.
CapReplayRange(op, arg, m) ==
    /\ cap.pc = "none"
    /\ cap' = IF op = "restRange" /\ arg < 0
                 THEN [cap EXCEPT !.pc = "done", !.op = op, !.limit = arg,
                                  !.matching = m, !.status = 400]
                 ELSE LET n == LimitCount(m, ReplayLimit(arg))
                      IN [cap EXCEPT
                             !.pc = IF n = 0 THEN "done" ELSE "range",
                             !.op = op, !.limit = arg, !.matching = m,
                             !.listed = n,
                             !.status = IF n = 0 THEN 404 ELSE 0]
    /\ UNCHANGED <<events, now, nextUUID, call, fq, sw, mq, mpc, gauge,
                   ctxDone, okSent, failedSent, delivered,
                   ipv>>

\* One turn of the loop: the replay of the next listed event is stored; after
\* the last one the request is answered.
CapStoreEvent ==
    /\ cap.pc = "range"
    /\ cap.created < cap.listed
    /\ cap' = [cap EXCEPT
                  !.created = @ + 1,
                  !.pc = IF cap.created + 1 = cap.listed
                            THEN "done" ELSE "range",
                  !.status = IF cap.created + 1 = cap.listed
                                THEN 200 ELSE 0]
    /\ UNCHANGED <<events, now, nextUUID, call, fq, sw, mq, mpc, gauge,
                   ctxDone, okSent, failedSent, delivered,
                   ipv>>

\* One turn of the loop whose StoreEvent fails: the request is answered
\* with the error.
CapStoreEventFails ==
    /\ cap.pc = "range"
    /\ cap.created < cap.listed
    /\ cap' = [cap EXCEPT !.pc = "done", !.status = 500]
    /\ UNCHANGED <<events, now, nextUUID, call, fq, sw, mq, mpc, gauge,
                   ctxDone, okSent, failedSent, delivered,
                   ipv>>

CapNext ==
    \/ \E op \in RangeOps, arg \in CapLimitArgs, m \in 0..MaxMatching :
          CapReplayRange(op, arg, m)
    \/ CapStoreEvent
    \/ CapStoreEventFails

CapSpec == Init /\ [][CapNext]_vars

\* The webhook endpoint with its checks, over a database that can fail, and
\* the statistics worker.
IngestNext ==
    \/ \E validateIP \in BOOLEAN, rq \in Requests :
          HandleDelivery("r1", validateIP, rq)
    \/ StoreEventProbe("r1")
    \/ StoreEventWrite("r1")
    \/ StoreEventFails("r1")
    \/ Respond("r1")
    \/ StartMetricsCollection(FALSE)
    \/ MetricsReceive
    \/ GatherMetrics

IngestSpec == Init /\ [][IngestNext]_vars

\* The allowlist: a validator with or without updates, its refreshes,
\* replacements by SetWebhookCIDRs and lookups, in any interleaving.
AllowNext ==
    \/ \E skipUpdates \in BOOLEAN : NewIPValidator(skipUpdates)
    \/ BackgroundTick
    \/ Update
    \/ SetCIDRs
    \/ IsAllowed

AllowSpec == Init /\ [][AllowNext]_vars

\* A caller of Storage.GetStats(since) holding the map it returned.
GetStatsCall(p, since) ==
    /\ Free(p)
    /\ call' = [call EXCEPT ![p] =
                   [ pc |-> "stats", op |-> "stats", since |-> since,
                     stats |-> GetStats(events, since) ]]
    /\ UNCHANGED <<events, now, nextUUID, fq, sw, mq, mpc, gauge, ctxDone,
                   okSent, failedSent, delivered, cap,
                   ipv>>

\* A caller of Storage.MarkForwarded(id), for an id that is stored or not,
\* holding the error it returned.
MarkForwardedCall(p, id) ==
    /\ Free(p)
    /\ events' = MarkForwarded(events, id, now)
    /\ call' = [call EXCEPT ![p] =
                   [ pc |-> "marked", op |-> "mark", id |-> id,
                     err |-> IF MarkForwardedErr(events, id)
                             THEN "event not found" ELSE "" ]]
    /\ UNCHANGED <<now, nextUUID, fq, sw, mq, mpc, gauge, ctxDone,
                   okSent, failedSent, delivered, cap,
                   ipv>>

\* A caller of Storage.GetEvent(id), for an id that is stored or not,
\* holding what it returned: the event, or nil when no row has the id.
GetEventCall(p, id) ==
    /\ Free(p)
    /\ call' = [call EXCEPT ![p] =
                   [ pc |-> "got", op |-> "get", id |-> id, err |-> "",
                     found |-> HasEvent(events, id),
                     ev |-> IF HasEvent(events, id)
                            THEN GetEvent(events, id) ELSE NoEvent ]]
    /\ UNCHANGED <<events, now, nextUUID, fq, sw, mq, mpc, gauge, ctxDone,
                   okSent, failedSent, delivered, cap,
                   ipv>>

\* The caller is done with what the store returned.
StorageReturn(p) ==
    /\ call[p].pc \in {"stats", "marked", "got"}
    /\ call' = [call EXCEPT ![p] = [IdleCall EXCEPT !.pc = "done",
                                                    !.op = call[p].op]]
    /\ UNCHANGED <<events, now, nextUUID, fq, sw, mq, mpc, gauge, ctxDone,
                   okSent, failedSent, delivered, cap,
                   ipv>>

\* The steps of one goroutine that lists the store.
List(p) ==
    \/ \E opts \in FilterOpts \cup PageOpts :
          \E page \in ListEvents(events, opts) : ListEventsCall(p, opts, page)
    \/ ListEventsReturn(p)

\* One goroutine that ingests deliveries, lists the store and asks for its
\* statistics, and a direct
\* sweep, whose deliveries succeed, that marks events as forwarded.
ListNext ==
    \/ Ingest("r1")
    \/ List("r1")
    \/ \E since \in NoTime..MaxClock : GetStatsCall("r1", since)
    \/ StorageReturn("r1")
    \/ DirectProcessEvents
    \/ ProcessEventsList("direct")
    \/ \E e \in sw["direct"].todo : ForwardEventBegin("direct", e)
    \/ ForwardEventResponse("direct", "ok")
    \/ ForwardEventMark("direct")
    \/ ProcessEventsEnd("direct")
    \/ Tick

ListSpec == Init /\ [][ListNext]_vars

\* One goroutine that ingests deliveries and calls the store's
\* MarkForwarded and GetEvent for ids that are stored or not.
StoreNext ==
    \/ Ingest("r1")
    \/ \E id \in SourceIds : MarkForwardedCall("r1", id)
    \/ \E id \in SourceIds : GetEventCall("r1", id)
    \/ StorageReturn("r1")
    \/ Tick

StoreSpec == Init /\ [][StoreNext]_vars

\* A listing, query by query, while another goroutine ingests deliveries
\* and marks events forwarded.
RaceNext ==
    \/ Ingest("r1")
    \/ \E id \in SourceIds : MarkForwardedCall("r1", id)
    \/ StorageReturn("r1")
    \/ \E opts \in PageOpts : ListEventsCount("r2", opts)
    \/ ListEventsPage("r2")
    \/ ListEventsReturn("r2")
    \/ Tick

RaceSpec == Init /\ [][RaceNext]_vars

\* One goroutine that ingests deliveries and sweeps called one after the
\* other, over a database that can fail the mark of a delivered event.
RetryNext ==
    \/ Ingest("r1")
    \/ DirectProcessEvents
    \/ Sweep("direct")
    \/ ForwardEventMarkFails("direct")

RetrySpec == Init /\ [][RetryNext]_vars

\* Start-up: deliveries are stored before and after the forwarder and the
\* collector are started, and nothing but the two start calls enqueues a
\* sweep; the workers are scheduled fairly.
StartNext ==
    \/ Ingest("r1")
    \/ StartForwarder
    \/ WorkerReceive
    \/ Sweep("worker")
    \/ StartMetricsCollection(FALSE)
    \/ StartMetricsCollectionNilStore
    \/ MetricsReceive
    \/ GatherMetrics

StartSpec ==
    /\ Init
    /\ [][StartNext]_vars
    /\ WF_vars(WorkerReceive)
    /\ WF_vars(Sweep("worker"))
    /\ WF_vars(MetricsReceive)
    /\ WF_vars(GatherMetrics)

\* The three background tasks and the cancellation of their context.  The
\* store stays empty, so every sweep ends with its listing.
DownNext ==
    \/ NewIPValidator(FALSE)
    \/ BackgroundTick
    \/ Update
    \/ StartForwarder
    \/ EnqueueProcessEvents
    \/ WorkerReceive
    \/ WorkerStop
    \/ ProcessEventsList("worker")
    \/ StartMetricsCollection(TRUE)
    \/ MetricsReceive
    \/ GatherMetrics
    \/ MetricsTick
    \/ MetricsStop
    \/ Cancel

\* Every task is scheduled again and again.  A select statement with
\* several ready cases picks one at random, so a case that is ready again
\* and again is taken at some point: the cases on ctx.Done() are strongly
\* fair.
DownSpec ==
    /\ Init
    /\ [][DownNext]_vars
    /\ WF_vars(NewIPValidator(FALSE))
    /\ WF_vars(Update)
    /\ WF_vars(StartForwarder)
    /\ WF_vars(WorkerReceive)
    /\ WF_vars(ProcessEventsList("worker"))
    /\ WF_vars(StartMetricsCollection(TRUE))
    /\ WF_vars(MetricsReceive)
    /\ WF_vars(GatherMetrics)
    /\ SF_vars(WorkerStop)
    /\ SF_vars(MetricsStop)

----------------------------------------------------------------------------
(* Properties of the event store (under Spec) *)

\* The columns StoreEvent is given: every field of the Event but the
\* forwarding stamp.
StoredFields(r) == [r EXCEPT !.forwardedAt = NoTime]

\* C1 (dedup idempotence): a StoreEvent call for an id that is already
\* stored leaves the stored row as the first call wrote it: in no step does
\* a stored row's type, payload, headers, createdAt, error, repository or
\* sender change, and there is always exactly one row per stored id.
DedupIdempotence ==
    [][\A r \in events :
          /\ Cardinality(RowsWithId(events', r.id)) = 1
          /\ \A r2 \in RowsWithId(events', r.id) :
                StoredFields(r2) = StoredFields(r)]_vars

\* C2 (concurrent-insert safety): whatever the interleaving of the probes
\* and writes of concurrent StoreEvent calls, every call returns without
\* error and the id it stored has exactly one row.
ConcurrentInsertSafety ==
    \A p \in Procs :
        call[p].pc = "respond" =>
            /\ call[p].err = ""
            /\ Cardinality(RowsWithId(events, call[p].ev.id)) = 1

\* The single-replay handlers' step that builds the replay Event.
ReplayBuilt(p) ==
    /\ call'[p].op \in {"rest", "graphql"}
    /\ call[p].pc \in {"idle", "done"}
    /\ call'[p].pc = "probe"

\* The replay Event's id starts with "<source id>-replay-".
HasReplayPrefix(id, srcId) ==
    /\ Len(id) > Len(srcId) + 1
    /\ SubSeq(id, 1, Len(srcId) + 1) = srcId \o <<"replay">>

\* C10 (replay linkage): through either facade, the Event a single replay
\* builds from the stored source X has an id starting with "X-replay-",
\* replayedFrom = X, originalTime = the source's createdAt, the source's
\* type, payload, headers, repository and sender, and a null forwardedAt;
\* and that Event is the row the replay stores.
ReplayLinkage ==
    [][\A p \in Procs :
          /\ ReplayBuilt(p) =>
                LET e == call'[p].ev
                    src == GetEvent(events, e.replayedFrom)
                IN /\ HasEvent(events, e.replayedFrom)
                   /\ HasReplayPrefix(e.id, src.id)
                   /\ e.originalTime = src.createdAt
                   /\ e.type = src.type
                   /\ e.payload = src.payload
                   /\ e.headers = src.headers
                   /\ e.repository = src.repository
                   /\ e.sender = src.sender
                   /\ e.forwardedAt = NoTime
          /\ (call[p].op \in {"rest", "graphql"} /\ call[p].pc = "write"
                /\ call'[p].pc = "respond" /\ call'[p].err = "")
               => call[p].ev \in events']_vars

----------------------------------------------------------------------------
(* Properties of the forwarding engine (under FwdSpec) *)

Running(s) == sw[s].pc \in {"list", "fwd", "sending", "mark"}

Ids(rows) == { r.id : r \in rows }

Unforwarded(tbl) == { r \in tbl : r.forwardedAt = NoTime }

\* C3 (forwardedAt is write-once): in no step does a row's non-null
\* forwardedAt change to another value or back to null.
ForwardedAtWriteOnce ==
    [][\A r \in events : \A r2 \in RowsWithId(events', r.id) :
          r.forwardedAt # NoTime => r2.forwardedAt = r.forwardedAt]_vars

\* C4 (no forwardedAt without delivery): every row with a non-null
\* forwardedAt belongs to an event for which a request to the target
\* completed without transport error and with a status < 400.
ForwardedOnlyAfterSuccess ==
    \A r \in events : r.forwardedAt # NoTime => r.id \in okSent

\* A sweep has marked an event it sent with success.
ForwardedAfterSuccessReached ==
    \E r \in events :
        r.forwardedAt # NoTime /\ r.id \in okSent /\ r.id \in delivered

SendFailed(s) ==
    /\ sw[s].pc = "sending"
    /\ sw'[s].pc = "fwd"

NoConcurrentSweeps ==
    /\ Cardinality({s \in Sweepers : Running(s)}) <= 1
    /\ \A s, o \in Sweepers :
          (s # o /\ sw[s].pc = "sending" /\ sw[o].pc = "sending")
              => sw[s].cur.id # sw[o].cur.id

\* C9 amended: the worker loop runs one sweep at a time: it takes a
\* request from the trigger queue only at its select statement, after the
\* previous ProcessEvents call has returned.
WorkerSweepsSequential ==
    [][fq' < fq => ~Running("worker") /\ sw'["worker"].pc = "list"]_vars

\* A request is pending in the trigger queue while the worker's sweep is
\* waiting for the target's response.
PendingDuringWorkerSweep ==
    /\ sw["worker"].pc = "sending"
    /\ fq = QueueCap

----------------------------------------------------------------------------
(* Properties of the trigger queues (under QueueSpec) *)

\* C8 (coalesced trigger): each of the two queues holds at most one
\* pending request; a step taken while a request is pending does not add
\* one; and an enqueue can always be taken, whatever the queue holds.
CoalescedTrigger ==
    /\ [](fq <= QueueCap /\ mq <= QueueCap)
    /\ [][(fq = QueueCap => fq' <= fq) /\ (mq = QueueCap => mq' <= mq)]_vars
    /\ [](ENABLED EnqueueProcessEvents)
    /\ [](mpc.t = "run" => ENABLED MetricsTick)

\* Both queues hold a request while further enqueuers are at work: the
\* forwarder's worker is in a sweep that ends with an enqueue, the metrics
\* ticker runs, and a handler is about to enqueue.
BothQueuesPending ==
    /\ fq = QueueCap
    /\ mq = QueueCap
    /\ Running("worker")
    /\ mpc.t = "run"
    /\ call["r1"].pc = "respond"

----------------------------------------------------------------------------
(* Eventual delivery (under LiveSpec) *)

\* Every id an ingestion or a replay can store.
AllIds ==
    SourceIds \cup
    { ReplayId(id, UUIDs[i]) : id \in SourceIds, i \in 1..MaxUUID }

StoredUnforwarded(id) ==
    \E r \in events : r.id = id /\ r.forwardedAt = NoTime

Delivered(id) ==
    \E r \in events : r.id = id /\ r.forwardedAt # NoTime /\ id \in okSent

\* C6 (eventual delivery): every event stored with a null forwardedAt, by
\* ingestion or by replay, is eventually sent to the target with success
\* and marked forwarded.
EventualDelivery ==
    \A id \in AllIds : StoredUnforwarded(id) ~> Delivered(id)

----------------------------------------------------------------------------
(* Properties of replay (under Spec) *)

\* C11 (replay provenance): every stored event with a non-empty
\* replayedFrom references the id of a stored event, and its payload and
\* headers are those of the referenced event.
ReplayProvenance ==
    \A r \in events :
        r.replayedFrom # NoId =>
            /\ HasEvent(events, r.replayedFrom)
            /\ r.payload = GetEvent(events, r.replayedFrom).payload
            /\ r.headers = GetEvent(events, r.replayedFrom).headers

----------------------------------------------------------------------------
(* Properties of replay (under ApiSpec) *)

ReplayOps == {"rest", "graphql"} \cup RangeOps

\* The step in which the StoreEvent call of a replay returns without error.
ReplayStored(p) ==
    /\ call[p].op \in ReplayOps
    /\ call[p].pc = "write"
    /\ call'[p].pc = "respond"
    /\ call'[p].err = ""

\* The step in which a range replay answers with success.
RangeSucceeded(p) ==
    /\ call[p].op \in RangeOps
    /\ call[p].pc = "respond"
    /\ call'[p].pc = "done"
    /\ call'[p].status = 200

\* C12 (a replay neither collides with nor alters a stored event): the
\* store of a replay leaves every stored row as it was and adds exactly
\* one row, whose id was not stored before; a successful range replay of k
\* listed events has added k rows with pairwise distinct ids.
ReplayAddsOnly ==
    [][\A p \in Procs :
          /\ ReplayStored(p) =>
                /\ ~Exists(events, call[p].ev.id)
                /\ events' = events \cup {call[p].ev}
                /\ Cardinality(events') = Cardinality(events) + 1
          /\ RangeSucceeded(p) =>
                /\ call'[p].made \subseteq events'
                /\ Cardinality(call'[p].made) = call[p].n
                /\ Cardinality(Ids(call'[p].made)) = call[p].n]_vars

\* A range replay of two events has succeeded: the store holds the two
\* sources and their two replays.
RangeOfTwoReached ==
    \E p \in Procs :
        /\ call[p].op \in RangeOps
        /\ call[p].pc = "done"
        /\ call[p].status = 200
        /\ call[p].n = 2
        /\ Cardinality(events) = 4

\* C13 (replay not-found semantics): a single replay of an id that is not
\* stored answers not-found, and a range replay whose filters match no
\* stored event answers "no events found" as an error; neither stores
\* anything, draws an id or goes on to a StoreEvent call.
ReplayNotFound ==
    [][\A p \in Procs :
          (Free(p) /\ call'[p] # call[p]) =>
          /\ \A f \in {"rest", "graphql"}, id \in SourceIds :
                (/\ call'[p].op = f
                 /\ ~HasEvent(events, id)
                 /\ ReplayEvent(p, f, id)) =>
                    /\ call'[p].pc = "done"
                    /\ call'[p].status = 404
                    /\ call'[p].err = "event not found"
                    /\ events' = events
                    /\ nextUUID' = nextUUID
          /\ \A op \in RangeOps, w \in Windows, arg \in LimitArgs :
                (/\ call'[p].op = op
                 /\ ~(op = "restRange" /\ arg < 0)
                 /\ FilterRows(events, RangeOpts(w, arg)) = {}
                 /\ ReplayRange(p, op, w, arg, {})) =>
                    /\ call'[p].pc = "done"
                    /\ call'[p].status = 404
                    /\ call'[p].err = "no events found in range"
                    /\ call'[p].made = {}
                    /\ events' = events
                    /\ nextUUID' = nextUUID]_vars

\* Over a store that holds events, a single replay was answered with
\* not-found and a range replay with "no events found".
NotFoundReached ==
    /\ events # {}
    /\ call["r1"].op \in {"rest", "graphql"}
    /\ call["r1"].status = 404
    /\ call["r2"].op \in RangeOps
    /\ call["r2"].status = 404

----------------------------------------------------------------------------
(* Properties of range replay over a large store (under CapSpec) *)

\* C14 (range-replay cap): one range replay without an explicit limit
\* creates at most 100 replays however many events match, and one with an
\* explicit positive limit L creates at most L.
RangeReplayCap ==
    cap.created <= IF cap.limit > 0 THEN cap.limit ELSE 100

\* A range replay without a limit over more than 100 matching events has
\* answered after creating exactly 100 replays.
CapOfHundredReached ==
    /\ cap.pc = "done"
    /\ cap.status = 200
    /\ cap.limit = 0
    /\ cap.matching > 100
    /\ cap.created = 100

----------------------------------------------------------------------------
(* Properties of the forwarding of replays and of header-less events
   (under FwdSpec) *)

\* C15 (replays re-enter the forwarding pipeline): whenever a sweep takes up
\* a listed replay event, it sends it to the target, and what it sends are
\* the payload and the headers of the event the replay was made from.
ReplaysForwarded ==
    [][\A s \in Sweepers : \A e \in sw[s].todo :
          (e.replayedFrom # NoId /\ ForwardEventBegin(s, e)) =>
              /\ sw'[s].pc = "sending"
              /\ sw'[s].cur = e
              /\ \A src \in RowsWithId(events, e.replayedFrom) :
                    /\ e.payload = src.payload
                    /\ e.headers = src.headers]_vars

\* C16 (missing or unparseable headers do not block delivery): whenever a
\* sweep takes up a listed event whose stored headers are absent or do not
\* parse, it still sends the event's payload to the target.
HeadersDoNotBlockDelivery ==
    [][\A s \in Sweepers : \A e \in sw[s].todo :
          (~HeadersParse(e.headers) /\ ForwardEventBegin(s, e)) =>
              /\ sw'[s].pc = "sending"
              /\ sw'[s].cur.payload = e.payload]_vars

----------------------------------------------------------------------------
(* Properties of a failing store during range replay (under ApiSpec) *)

\* C17 as stated (a storage error during range replay is per item): when
\* storing the replay of one listed event fails and listed events remain,
\* the range replay goes on with the next of them.
RangeContinuesAfterStoreError ==
    [][\A p \in Procs :
          (/\ call[p].op \in RangeOps
           /\ call[p].pc = "respond"
           /\ call[p].err # ""
           /\ call[p].todo # {}
           /\ call'[p] # call[p]) =>
              call'[p].pc = "range"]_vars

\* C17 as the code has it (a storage error ends the range replay): when
\* storing the replay of one listed event fails, the request is answered
\* with the error at once; no replay is made for the listed events that
\* remain, and the replays stored before the failure stay in the store.
RangeAbortsOnStoreError ==
    [][\A p \in Procs :
          (/\ call[p].op \in RangeOps
           /\ call[p].pc = "respond"
           /\ call[p].err # ""
           /\ call'[p] # call[p]) =>
              /\ call'[p].pc = "done"
              /\ call'[p].status = 500
              /\ call'[p].made = call[p].made
              /\ Ids(call[p].made) \subseteq Ids(events')
              /\ events' = events
              /\ nextUUID' = nextUUID]_vars

\* A range replay of two listed events has been answered with the error of
\* its first StoreEvent: no replay is stored and the second listed event's
\* replay was never built.
RangeAbortedReached ==
    /\ call["r2"].op \in RangeOps
    /\ call["r2"].pc = "done"
    /\ call["r2"].status = 500
    /\ call["r2"].n = 2
    /\ call["r2"].made = {}
    /\ nextUUID = 1
    /\ Cardinality(events) = 2

----------------------------------------------------------------------------
(* Properties of stored events over ingestion, replay and sweeps
   (under FwdSpec) *)

\* What the claim holds fixed in a stored event: everything but the
\* forwarding stamp and the error text.
ImmutableFields(r) == [r EXCEPT !.forwardedAt = NoTime, !.error = ""]

\* C18 (event immutability and no deletion): in no step does the number of
\* stored events decrease, and every stored event is still stored after the
\* step with the same id, type, headers, payload, createdAt, repository,
\* sender, replayedFrom and originalTime.
EventImmutability ==
    [][/\ Cardinality(events') >= Cardinality(events)
       /\ \A r \in events :
             \E r2 \in events' :
                ImmutableFields(r2) = ImmutableFields(r)]_vars

----------------------------------------------------------------------------
(* Properties of the webhook endpoint (under IngestSpec) *)

\* The signature GitHub computes for a request's body under the secret.
GoodSignature(rq) ==
    [prefix |-> "sha256=", hex |-> TRUE, mac |-> HMAC(Secret, rq.body)]

BadMethod(rq) == rq.method # "POST"
NoEventType(rq) == rq.etype = ""
BadOrigin(validateIP, rq) == validateIP /\ rq.remote \notin GitHubHooks
BadSignature(rq) == rq.sig # GoodSignature(rq)

\* C19 (validation failures reject and store nothing): a request that is
\* not a POST, has no event-type header, comes from an address outside the
\* hook ranges while origin validation is on, or has a missing, malformed or
\* non-matching signature is answered with a 4xx status (405 for the
\* method, 400 for the header, 401 for the signature when nothing else is
\* wrong); the handler is then done, no event is stored, the stored-events
\* counter is not incremented and no statistics job is enqueued.
ValidationRejects ==
    [][\A p \in Procs :
          (Free(p) /\ call'[p] # call[p] /\ call'[p].op = "ingest") =>
          \A validateIP \in BOOLEAN, rq \in Requests :
             (/\ \/ BadMethod(rq)
                 \/ NoEventType(rq)
                 \/ BadOrigin(validateIP, rq)
                 \/ BadSignature(rq)
              /\ HandleDelivery(p, validateIP, rq)) =>
                 /\ call'[p].pc = "done"
                 /\ call'[p].status \in 400..499
                 /\ BadMethod(rq) => call'[p].status = 405
                 /\ (~BadMethod(rq) /\ NoEventType(rq)) =>
                       call'[p].status = 400
                 /\ (/\ ~BadMethod(rq) /\ ~NoEventType(rq)
                     /\ ~BadOrigin(validateIP, rq)) =>
                       call'[p].status = 401
                 /\ ~call'[p].counted
                 /\ events' = events
                 /\ mq' = mq]_vars

\* A POST with its event-type header and a signature made with another key
\* has been answered 401 while an earlier delivery is stored, and its
\* statistics job has been taken by the worker.
RejectedReached ==
    /\ call["r1"].op = "ingest"
    /\ call["r1"].pc = "done"
    /\ call["r1"].status = 401
    /\ call["r1"].err = "invalid signature"
    /\ Cardinality(events) = 1
    /\ mq = 0
    /\ mpc.w = "idle"

\* C23 (the origin validation switch): a POST with its event-type header
\* from an address outside the hook ranges is, by a handler with origin
\* validation on, rejected for its origin and not stored; by a handler with
\* origin validation off it is not rejected for its origin: its signature
\* is verified, and with a good signature its StoreEvent call begins.
OriginValidationSwitch ==
    [][\A p \in Procs :
          (Free(p) /\ call'[p] # call[p] /\ call'[p].op = "ingest") =>
          \A rq \in Requests :
             (/\ ~BadMethod(rq)
              /\ ~NoEventType(rq)
              /\ rq.remote \notin GitHubHooks) =>
                 /\ HandleDelivery(p, TRUE, rq) =>
                       /\ call'[p].pc = "done"
                       /\ call'[p].status = 400
                       /\ call'[p].err = "request from non-GitHub IP"
                       /\ events' = events
                 /\ HandleDelivery(p, FALSE, rq) =>
                       /\ call'[p].err # "request from non-GitHub IP"
                       /\ IF BadSignature(rq)
                          THEN /\ call'[p].pc = "done"
                               /\ call'[p].status = 401
                          ELSE /\ call'[p].pc = "probe"
                               /\ call'[p].ev.id = <<rq.did>>
                               /\ call'[p].ev.payload = rq.body]_vars

\* A delivery has been rejected for its origin while an earlier delivery
\* is stored.
OriginRejectedReached ==
    /\ call["r1"].op = "ingest"
    /\ call["r1"].pc = "done"
    /\ call["r1"].status = 400
    /\ call["r1"].err = "request from non-GitHub IP"
    /\ events # {}

\* C20 (a storage failure during ingestion is swallowed): when StoreEvent
\* returns an error for a delivery that passed validation, the handler
\* answers 200 and the stored-events counter is not incremented.
StorageFailureSwallowed ==
    [][\A p \in Procs :
          (/\ call[p].op = "ingest"
           /\ call[p].pc = "respond"
           /\ call[p].err # ""
           /\ call'[p] # call[p]) =>
              /\ call'[p].pc = "done"
              /\ call'[p].status = 200
              /\ ~call'[p].counted]_vars

\* A delivery has been answered 200 after its StoreEvent failed: nothing is
\* stored and nothing was counted.
SwallowedReached ==
    /\ call["r1"].op = "ingest"
    /\ call["r1"].pc = "done"
    /\ call["r1"].status = 200
    /\ ~call["r1"].counted
    /\ events = {}

----------------------------------------------------------------------------
(* Properties of the ingestion handler with the forwarder running
   (under FwdSpec) *)

\* The step in which the StoreEvent call of an ingestion returns without
\* error.
IngestStored(p) ==
    /\ call[p].op = "ingest"
    /\ call[p].pc = "write"
    /\ call'[p].pc = "respond"
    /\ call'[p].err = ""

\* C21 (what the ingestion handler stores): the Event the handler builds
\* from a delivery has the delivery identifier as id, the event-type header
\* as type, the raw body as payload and no forwardedAt; and when its
\* StoreEvent call returns without error, the stored event of that id has
\* that type and payload and no forwardedAt.
IngestStoresDelivery ==
    [][\A p \in Procs :
          /\ \A d \in Deliveries :
                ServeHTTP(p, d) =>
                    /\ call'[p].ev.id = <<d.did>>
                    /\ call'[p].ev.type = d.etype
                    /\ call'[p].ev.payload = d.body
                    /\ call'[p].ev.forwardedAt = NoTime
          /\ IngestStored(p) =>
                \E r \in events' :
                    /\ r.id = call[p].ev.id
                    /\ r.type = call[p].ev.type
                    /\ r.payload = call[p].ev.payload
                    /\ r.forwardedAt = NoTime]_vars

----------------------------------------------------------------------------
(* Properties of the statistics trigger (under QueueSpec) *)

\* C22 (the statistics refresh is signalled without blocking): a handler
\* that has stored its event can always complete its response, whether a
\* trigger is pending or not and whether a collector worker runs or not;
\* completing it leaves a trigger pending in the collector's queue, adds at
\* most one, and recomputes nothing.
StatsSignalNonBlocking ==
    /\ [](\A p \in Procs :
            (call[p].op = "ingest" /\ call[p].pc = "respond") =>
                ENABLED Respond(p))
    /\ [][\A p \in Procs :
            (/\ call[p].op = "ingest"
             /\ call[p].pc = "respond"
             /\ call[p].err = ""
             /\ call'[p].pc = "done") =>
                /\ mq' = (IF mq = 0 THEN 1 ELSE mq)
                /\ mpc' = mpc
                /\ gauge' = gauge]_vars

\* A handler has completed its response although the trigger of an earlier
\* store was still pending and no collector worker had been started.
RespondedWhilePending ==
    /\ call["r1"].op = "ingest"
    /\ call["r1"].pc = "done"
    /\ call["r1"].counted
    /\ Cardinality(events) = 2
    /\ mq = 1
    /\ mpc.w = "none"

----------------------------------------------------------------------------
(* Properties of the origin allowlist (under AllowSpec) *)

\* A refresh has failed when the fetch gave a transport error, a status
\* that is not a success, a body that is not JSON, or a range that does not
\* parse.
RefreshFailed(resp) ==
    \/ resp.err
    \/ resp.status < 200
    \/ resp.status > 299
    \/ ~resp.json
    \/ \E i \in 1..Len(resp.hooks) :
          \/ resp.hooks[i].addr \notin { <<a>> : a \in 0..(2^AddrBits - 1) }
          \/ resp.hooks[i].bits \notin 0..AddrBits

\* C24 (a failed refresh keeps the allowlist): no step of an Update call
\* whose fetch failed, whatever the cause, changes the ranges in memory.
FailedRefreshKeepsRanges ==
    [][(/\ ipv'.upd # ipv.upd
        /\ ipv'.upd.pc # "get"
        /\ RefreshFailed(ipv'.upd.resp)) =>
           ipv'.webhookCIDR = ipv.webhookCIDR]_vars

\* The complete lists of parsed ranges: one for every list of range strings
\* that parses.
CompleteLists ==
    { ParseCIDRs(h).nets : h \in { l \in HookLists : ParseCIDRs(l).ok } }

\* C25 (allowlist replacement is atomic for readers): the ranges in memory
\* are at every moment one complete list; a lookup that holds the read lock
\* runs over one complete list, which is not replaced while it runs; and
\* Update holds the lock only from its assignment on, never while it
\* fetches or parses.
AllowlistAtomic ==
    /\ ipv.webhookCIDR \in CompleteLists
    /\ ipv.rd.pc \in {"loop", "runlock"} =>
          /\ ipv.rd.iter \in CompleteLists
          /\ ipv.rd.iter = ipv.webhookCIDR
          /\ ipv.mu.w = "none"
          /\ ipv.mu.r = 1
    /\ ipv.mu.w = "update" <=> ipv.upd.pc \in {"assign", "unlock"}
    /\ ipv.mu.w = "set" <=> ipv.set.pc \in {"assign", "unlock"}

\* A lookup is running over a list of two ranges while an Update that has
\* parsed another list waits for the lock.
ReaderHoldsOffWriter ==
    /\ ipv.rd.pc = "loop"
    /\ Len(ipv.rd.iter) = 2
    /\ ipv.upd.pc = "lock"
    /\ ipv.upd.nets # ipv.webhookCIDR

\* The addresses of a range: those from its base up to the end of the
\* block of its prefix length.
AddressesOf(ipnet) ==
    { a \in 0..(2^AddrBits - 1) :
        /\ a >= ipnet.base
        /\ a < ipnet.base + 2^(AddrBits - ipnet.bits) }

\* C26 (allowlist correctness): a finished lookup has answered true exactly
\* when its address string is one well-formed address and that address
\* lies in at least one range of the list it ran over; so a malformed
\* string, and any address over an empty list, is answered false.
AllowlistCorrect ==
    ipv.rd.pc = "done" =>
        ipv.rd.ans =
            (/\ Len(ipv.rd.addr) = 1
             /\ ipv.rd.addr[1] \in 0..(2^AddrBits - 1)
             /\ \E i \in 1..Len(ipv.rd.iter) :
                   ipv.rd.addr[1] \in AddressesOf(ipv.rd.iter[i]))

\* A lookup has answered true for an address that is not the base of any
\* range and lies in the second of two ranges.
AllowedBySecondRange ==
    /\ ipv.rd.pc = "done"
    /\ ipv.rd.ans
    /\ Len(ipv.rd.iter) = 2
    /\ ipv.rd.i = 2
    /\ \A i \in 1..2 : ipv.rd.iter[i].base # ipv.rd.ip

----------------------------------------------------------------------------
(* Properties of shutdown (under DownSpec) *)

\* The background tasks that have exited.
Exited ==
    { t \in {"forwarder"} : sw["worker"].pc = "stopped" }
    \cup { t \in {"collector"} : mpc.w = "stopped" }
    \cup { t \in {"ticker"} : mpc.t = "stopped" }
    \cup { t \in {"allowlist"} : ipv.bg = "stopped" }

\* C27 (the shutdown contract): no background task exits before the
\* context is cancelled, and once it is cancelled the allowlist refresh,
\* the forwarder's worker, the collector's worker and its ticker all exit
\* at some point, whatever triggers keep arriving.
ShutdownContract ==
    /\ [](Exited # {} => ctxDone)
    /\ ctxDone ~> (Exited = {"forwarder", "collector", "ticker", "allowlist"})

----------------------------------------------------------------------------
(* Properties of QueueSpec: a sweep and cancellation *)

\* The worker's sweep leaves the loop over the listed events.
SweepLeavesLoop ==
    /\ sw["worker"].pc \in {"fwd", "sending", "mark"}
    /\ sw'["worker"].pc \in {"idle", "stopped"}

\* The worker's sweep, after cancellation, is done with an event whose
\* delivery succeeded.
DeliveredAfterCancel ==
    /\ sw["worker"].late
    /\ sw["worker"].pc = "mark"
    /\ sw'["worker"].pc # "mark"

\* C28 (a sweep is not cancellable mid-flight): a sweep leaves its loop
\* only when every listed event has had its turn, cancelled or not, and an
\* event delivered successfully after cancellation is marked forwarded in
\* the store when the sweep is done with it.
SweepNotCancellable ==
    [][ /\ SweepLeavesLoop => sw["worker"].todo = {}
        /\ DeliveredAfterCancel =>
              \A r \in RowsWithId(events', sw["worker"].cur.id) :
                  r.forwardedAt # NoTime ]_vars

\* A delivery is in flight after cancellation.
SendingAfterCancel == ctxDone /\ sw["worker"].pc = "sending"

----------------------------------------------------------------------------
(* Properties of ListSpec and StoreSpec: the page, the total, the filters,
   the statistics and single rows *)

\* The goroutine's step is a call of ListEvents that returns.
ListStep == Free("r1") /\ call'["r1"].pc = "listed"

\* The number of rows at positions [offset, offset + limit) of n rows; a
\* limit of zero is no limit.
WindowCount(n, limit, offset) ==
    LET left == IF offset < n THEN n - offset ELSE 0
    IN IF limit > 0 /\ limit < left THEN limit ELSE left

\* page holds the rows at positions [offset, offset + limit) of rows in
\* some order by createdAt descending: the rows skipped before it are no
\* older than the page, and the page is no older than the rows after it.
IsWindow(page, rows, limit, offset) ==
    /\ page \subseteq rows
    /\ Cardinality(page) = WindowCount(Cardinality(rows), limit, offset)
    /\ \E skipped \in SUBSET (rows \ page) :
          /\ Cardinality(skipped) + WindowCount(Cardinality(rows), 0, offset)
                = Cardinality(rows)
          /\ \A a \in skipped, b \in rows \ skipped :
                a.createdAt >= b.createdAt
          /\ \A b \in page, c \in rows \ (page \cup skipped) :
                b.createdAt >= c.createdAt

\* The total of every listing is the number of stored events that match
\* its filters, which is what CountEvents returns.
ListTotal ==
    [][ ListStep =>
          /\ call'["r1"].total
                = Cardinality({ r \in events : Matches(r, call'["r1"].opts) })
          /\ call'["r1"].total = CountEvents(events, call'["r1"].opts) ]_vars

\* C29 (listing page and total): every listing returns as total the number
\* of all stored events matching its filters, whatever limit and offset
\* are, equal to what countEvents returns, and as page the events at
\* positions [offset, offset + limit) of the matching events ordered by
\* createdAt descending.
ListPageAndTotal ==
    [][ ListStep =>
          LET c == call'["r1"]
          IN /\ c.total
                  = Cardinality({ r \in events : Matches(r, c.opts) })
             /\ c.total = CountEvents(events, c.opts)
             /\ IsWindow(c.page, FilterRows(events, c.opts),
                         c.opts.limit, c.opts.offset) ]_vars

\* The event satisfies every filter that is set.
Satisfies(e, o) ==
    /\ (o.types # {} => e.type \in o.types)
    /\ (o.repository # "" => e.repository = o.repository)
    /\ (o.sender # "" => e.sender = o.sender)
    /\ (o.since # NoTime => o.since <= e.createdAt)
    /\ (o.until # NoTime => e.createdAt <= o.until)
    /\ (o.onlyNonForwarded => e.forwardedAt = NoTime)

CountedEvents(ty, since) ==
    { r \in events : r.type = ty /\ (since = NoTime \/ r.createdAt >= since) }

\* C31 (stats aggregation): getStats(since) returns for each event type the
\* number of stored events of that type with createdAt >= since, all of
\* them when since is zero; a type with no such event is absent from the
\* result.
StatsAggregation ==
    [][ (Free("r1") /\ call'["r1"].pc = "stats") =>
          LET c == call'["r1"]
          IN \A ty \in EventTypes :
                IF CountedEvents(ty, c.since) = {}
                THEN ty \notin DOMAIN c.stats
                ELSE /\ ty \in DOMAIN c.stats
                     /\ c.stats[ty]
                          = Cardinality(CountedEvents(ty, c.since)) ]_vars

\* getStats has counted one of two stored push events, the other being
\* older than since, and has no entry for pull_request.
StatsExcludeOlder ==
    /\ call["r1"].pc = "stats"
    /\ call["r1"].since = MaxClock
    /\ DOMAIN call["r1"].stats = {"push"}
    /\ call["r1"].stats["push"] = 1
    /\ Cardinality({ r \in events : r.type = "push" }) = 2

\* The goroutine's step is a call of MarkForwarded that returns.
MarkStep == Free("r1") /\ call'["r1"].pc = "marked"

\* C32 (marking an unknown id): markForwarded(id) on an id that is not in
\* the store returns a "not found" error and leaves every stored event as
\* it was; on a stored id it returns no error and changes nothing but that
\* event's forwardedAt, which it sets.
MarkForwardedNotFound ==
    [][ MarkStep =>
          LET id == call'["r1"].id
          IN IF RowsWithId(events, id) = {}
             THEN /\ call'["r1"].err = "event not found"
                  /\ events' = events
             ELSE /\ call'["r1"].err = ""
                  /\ { r \in events' : r.id # id }
                        = { r \in events : r.id # id }
                  /\ \A r \in RowsWithId(events, id) :
                        \E m \in RowsWithId(events', id) :
                           /\ m.forwardedAt # NoTime
                           /\ m = [r EXCEPT !.forwardedAt = m.forwardedAt]
                  /\ Cardinality(events') = Cardinality(events) ]_vars

\* markForwarded has answered "not found" for an id that a store holding
\* another event does not hold.
MarkedUnknownId ==
    /\ call["r1"].pc = "marked"
    /\ call["r1"].err = "event not found"
    /\ events # {}
    /\ RowsWithId(events, call["r1"].id) = {}
    /\ \A r \in events : r.forwardedAt = NoTime

\* The fields of an event that the store hands back as they were given.
SameFields(g, e) ==
    /\ g.id = e.id
    /\ g.type = e.type
    /\ g.headers = e.headers
    /\ g.payload = e.payload
    /\ g.forwardedAt = e.forwardedAt
    /\ g.repository = e.repository
    /\ g.sender = e.sender

\* The goroutine's step is StoreEvent's INSERT of an id not yet stored.
InsertStep ==
    /\ call["r1"].pc = "write"
    /\ ~call["r1"].exists
    /\ call'["r1"].pc = "respond"
    /\ call'["r1"].err = ""

\* The goroutine's step is a call of GetEvent that returns.
GetStep == Free("r1") /\ call'["r1"].pc = "got"

----------------------------------------------------------------------------
(* Properties of FwdSpec: what a sweep sends, and to how many *)

\* C34 (the outbound wire contract): whatever the target, HTTP or local
\* socket, the request a sweep sends for an event is a POST whose body is
\* the payload of the event as the sweep listed it from the store and
\* which carries every header name and value of the event's stored header
\* set.
OutboundWireContract ==
    \A s \in Sweepers, t \in TargetURLs :
        sw[s].pc = "sending" =>
            LET e == sw[s].cur
                rq == ForwardRequest(t, e)
            IN /\ rq.method = "POST"
               /\ rq.body = e.payload
               /\ \A i \in 1..Len(e.headers) : e.headers[i] \in rq.header
               /\ \A d \in Deliveries :
                     e.headers = HeaderJSON(d) =>
                        /\ <<"X-Github-Delivery", d.did>> \in rq.header
                        /\ <<"X-Github-Event", d.etype>> \in rq.header

\* The worker's sweep is sending a stored delivery that has headers.
SendingWithHeaders ==
    /\ sw["worker"].pc = "sending"
    /\ sw["worker"].cur.headers # NoHeaders
    /\ sw["worker"].cur.payload = "b2"
    /\ sw["worker"].cur \in events

----------------------------------------------------------------------------
(* Properties of QueueSpec: the coverage of a sweep *)

\* The worker's sweep ends the turn of its current event without having
\* marked it: the send failed, or the send succeeded and the mark failed.
TurnFailed ==
    /\ sw["worker"].pc \in {"sending", "mark"}
    /\ sw'["worker"].pc = "fwd"
    /\ events' = events

----------------------------------------------------------------------------
(* Properties of RetrySpec: a mark that fails *)

\* The sweep's step is a mark that fails after a successful send.
MarkFailed ==
    /\ sw["direct"].pc = "mark"
    /\ sw'["direct"].pc = "fwd"
    /\ events' = events

----------------------------------------------------------------------------
(* Properties of DownSpec: wake-ups *)

\* The forwarder's worker loop and the collector's worker loop are running.
ForwarderAlive == sw["worker"].pc \notin {"none", "stopped"}
CollectorAlive == mpc.w \notin {"none", "stopped"}

\* C37 (no lost wake-up): every enqueue call, for the forwarder and for the
\* collector, leaves a request pending, also when a run is in progress or
\* a request is pending already; a pending request goes away only by the
\* worker taking it and starting a run; and under fair scheduling a
\* request pending while the worker is alive is taken, so that a run
\* starts after the enqueue call, unless the worker exits on cancellation
\* first.
NoLostWakeup ==
    /\ [][ /\ EnqueueProcessEvents => fq' > 0
           /\ MetricsTick => mq' > 0
           /\ fq' < fq => (sw["worker"].pc = "idle"
                             /\ sw'["worker"].pc = "list")
           /\ mq' < mq => (mpc.w = "idle" /\ mpc'.w = "gather") ]_vars
    /\ (fq > 0 /\ ForwarderAlive)
          ~> (fq = 0 \/ sw["worker"].pc = "stopped")
    /\ (mq > 0 /\ CollectorAlive)
          ~> (mq = 0 \/ mpc.w = "stopped")

\* Before any cancellation a request is pending for each worker while that
\* worker is in a run.
PendingDuringBothRuns ==
    /\ ~ctxDone
    /\ fq = QueueCap
    /\ sw["worker"].pc = "list"
    /\ mq = QueueCap
    /\ mpc.w = "gather"

----------------------------------------------------------------------------
(* Properties of StartSpec: the first sweep and the first recomputation *)

\* C38 (start-up sweep): StartForwarder leaves a sweep request pending for
\* the worker it spawns, so that every event that is unforwarded in the
\* store when the forwarder starts is listed by a sweep with no other
\* trigger; StartMetricsCollection leaves a recomputation pending for its
\* worker, which then runs; and a collector without a store starts no
\* worker and enqueues nothing: nothing is ever taken from its queue and
\* nothing is recomputed.
StartupSweep ==
    /\ [][ /\ StartForwarder =>
                (fq' = QueueCap /\ sw'["worker"].pc = "idle")
           /\ StartMetricsCollection(FALSE) =>
                (mq' = QueueCap /\ mpc'.w = "idle")
           /\ StartMetricsCollectionNilStore =>
                (mq' = mq /\ mpc'.w \notin {"idle", "gather"})
           /\ mpc.w = "off" =>
                (mpc' = mpc /\ gauge' = gauge /\ mq' >= mq) ]_vars
    /\ \A id \in SourceIds :
          (sw["worker"].pc = "idle" /\ fq > 0 /\ StoredUnforwarded(id))
             ~> (id \in Ids(sw["worker"].todo))
    /\ (mpc.w = "idle" /\ mq > 0) ~> (mpc.w = "gather")

\* The worker is sending an event in the sweep that StartForwarder
\* enqueued, next to a collector that was started without a store.
StartupSweepSending ==
    /\ sw["worker"].pc = "sending"
    /\ fq = 0
    /\ mpc.w = "off"
    /\ mq = 0

----------------------------------------------------------------------------
(* Properties of FwdSpec: redelivery of a forwarded event *)

\* The StoreEvent call of an ingestion writes while the stored event of
\* its id is forwarded.
RedeliveryOfForwarded(p) ==
    /\ call[p].op = "ingest"
    /\ call[p].pc = "write"
    /\ call'[p].pc = "respond"
    /\ \E r \in RowsWithId(events, call[p].ev.id) : r.forwardedAt # NoTime

----------------------------------------------------------------------------
(* Properties of RaceSpec: a listing among concurrent writers *)

\* C40 (page/total consistency under concurrent writers): every result of
\* listEvents, also one computed while other goroutines insert events or
\* mark events forwarded between its two queries, returns at most as many
\* events as its total.
PageWithinTotal ==
    \A p \in Procs :
        call[p].pc = "listed" => Cardinality(call[p].page) <= call[p].total

====
